---- MODULE Spec2Model ----
(***************************************************************************)
(* A model of the virtual-DOM reconciler bundled in this repository        *)
(* (marko 4.14.23, src/unnamed/part_000): the key sequence, the attribute  *)
(* patch of VElement and morphdom with the fragment/helper layer, the      *)
(* component registry and the renderer that feeds it.                      *)
(*                                                                         *)
(* Five specifications share the module:                                   *)
(*   SpecKeys   KeySequence._i_ driven by arbitrary literal keys           *)
(*   SpecAttrs  VElement.aC_ / VElement.aA_ on one element                 *)
(*   SpecVNode  the child list of a virtual node built by e / t / c        *)
(*   SpecQueue  update-manager: queued component updates and batches       *)
(*   Spec       render, morphdom and component initialisation              *)
(***************************************************************************)
EXTENDS Integers, Sequences, FiniteSets, TLC

VARIABLES
    ksLookup,     \* KeySequence._B_ : literal key -> next index
    ksRequested,  \* literal keys passed to _i_ so far (history)
    ksResolved,   \* keys returned by _i_ so far (history)
    aEl,          \* SpecAttrs: the real element (attributes, properties, last vnode)
    aLog,         \* SpecAttrs: DOM attribute operations of the last patch (history)
    aPrev,        \* SpecAttrs: the virtual element the last patch started from (history)
    rN,           \* Spec: the real nodes (id -> node), node 1 is the mount point
    rC,           \* Spec: the component instances (component id -> instance)
    rLookup,      \* Spec: componentLookup, the ids of the registered instances
    rTree,        \* Spec: what the root template rendered in the last pass
    rMode,        \* Spec: the template family the root component renders
    rObs,         \* Spec: the observation of the last pass (history)
    vN,           \* SpecVNode: the virtual nodes built so far (id -> node)
    vCur,         \* SpecVNode: the node the builder chain stands on
    uComp,        \* SpecQueue: the components (r_, s_ and what a handler still asks for)
    uStack,       \* SpecQueue: the call stack (update passes and queue loops)
    uBatches,     \* SpecQueue: batchStack, one queue per open batch
    uUnbatched,   \* SpecQueue: unbatchedQueue
    uScheduled,   \* SpecQueue: updatesScheduled
    uTicks,       \* SpecQueue: the callbacks given to nextTick that have not run yet
    uHistory,     \* SpecQueue: what was requested and run so far (history)
    fEl,          \* SpecForm: the real form element (attributes and live properties)
    fTarget,       \* SpecForm: the virtual element of the last patch, when that was the last step
    gKids,        \* SpecFragment: the child list of each container
    gFrag,        \* SpecFragment: the fragment (made, at_ pending, the parent given to beginFragmentNode)
    gExpect,      \* SpecFragment: the children the operations gave the fragment, in order (history)
    gOps,          \* SpecFragment: the operations done so far (history)
    sState,       \* SpecState: the State object of the component (V_, K_, J_, s_)
    sComp,        \* SpecState: the component (s_, its update_ handlers, what its shouldUpdate returns)
    sLast,        \* SpecState: the last call of update(): what it found and what it did (observation)
    sSets,         \* SpecState: the number of calls of setState, setStateDirty and forceUpdate so far
    dLookup,      \* SpecEvents: componentLookup, the ids of the registered components
    dProps,       \* SpecEvents: the onclick entry of the virtual properties of each node
    dLast,        \* SpecEvents: the calls of delegateEvent of the last dispatch (observation)
    dCount,        \* SpecEvents: the number of dispatches so far
    lDefs,        \* SpecLoader: what the factories of the defined modules require
    lMod,         \* SpecLoader: instanceCache, the runs of each factory and what the require calls of the last call returned (observation)
    lRun,         \* SpecLoader: _ready, runQueue and pendingCount
    lHist,         \* SpecLoader: the run requests and the runs executed so far (history)
    yComp,        \* SpecDirty: the update flags, input and state value of each component
    yUnbatched,   \* SpecDirty: unbatchedQueue
    yBatches,     \* SpecDirty: the queues of the open batches, outermost first
    yScheduled,   \* SpecDirty: updatesScheduled
    yCalls,        \* SpecDirty: the number of calls made so far
    zEvents,      \* SpecSubs: the listeners of the target by event type (target.$e)
    zWrappers,    \* SpecSubs: the tracked listeners of each EventEmitterWrapper made so far
    zList,        \* SpecSubs: the wrappers in the subscribeToList of the tracker of the component
    zDestroyed,   \* SpecSubs: the component is destroyed
    zInvoked,     \* SpecSubs: the user listeners the last emit invoked
    zOps,          \* SpecSubs: the number of calls made so far
    oOuts,        \* SpecAsync: the outputs, the root first: bf_, bi_ and whether end() was called
    oState,       \* SpecAsync: the shared state of the outputs: be_, the finish listeners of bc_, and the finish events emitted
    oCalls        \* SpecAsync: how a finish listener was registered and how often it was invoked

keyVars == <<ksLookup, ksRequested, ksResolved>>
attrVars == <<aEl, aLog, aPrev>>
mainVars == <<rN, rC, rLookup, rTree, rMode, rObs>>
vnodeVars == <<vN, vCur>>
queueVars == <<uComp, uStack, uBatches, uUnbatched, uScheduled, uTicks, uHistory>>
formVars == <<fEl, fTarget>>
fragVars == <<gKids, gFrag, gExpect, gOps>>
stateVars == <<sState, sComp, sLast, sSets>>
eventVars == <<dLookup, dProps, dLast, dCount>>
loaderVars == <<lDefs, lMod, lRun, lHist>>
dirtyVars == <<yComp, yUnbatched, yBatches, yScheduled, yCalls>>
subsVars == <<zEvents, zWrappers, zList, zDestroyed, zInvoked, zOps>>
asyncVars == <<oOuts, oState, oCalls>>
vars == <<ksLookup, ksRequested, ksResolved, aEl, aLog, aPrev, rN, rC, rLookup, rTree, rMode, rObs,
          vN, vCur, uComp, uStack, uBatches, uUnbatched, uScheduled, uTicks, uHistory,
          fEl, fTarget,
          gKids, gFrag, gExpect, gOps,
          sState, sComp, sLast, sSets,
          dLookup, dProps, dLast, dCount,
          lDefs, lMod, lRun, lHist,
          yComp, yUnbatched, yBatches, yScheduled, yCalls,
          zEvents, zWrappers, zList, zDestroyed, zInvoked, zOps,
          oOuts, oState, oCalls>>

(***************************************************************************)
(* Bounds of the model.                                                    *)
(***************************************************************************)
MaxRequests == 4
MaxKids == 3

(***************************************************************************)
(* Node kinds and flags (morphdom/index, VElement).                        *)
(***************************************************************************)
ELEMENT_NODE == 1
TEXT_NODE == 3
COMMENT_NODE == 8
COMPONENT_NODE == 2
DOCUMENT_FRAGMENT_NODE == 11
FRAGMENT_NODE == 12
FLAG_SIMPLE_ATTRS == 4
FLAG_PRESERVE == 8
FLAG_CUSTOM_ELEMENT == 16

\* flags & FLAG, for the one-bit flags above
HasFlag(flags, flag) == (flags \div flag) % 2 = 1

(***************************************************************************)
(* KeySequence (components/KeySequence).                                   *)
(*   var currentIndex = lookup[key]++;                                     *)
(*   if (!currentIndex) { lookup[key] = 1; return key; }                   *)
(*   else return key + "_" + currentIndex;                                 *)
(* A stored index is never 0, so "!currentIndex" is "key not yet seen".    *)
(***************************************************************************)
KeySequence == [k \in {} |-> 0]

\* a lookup whose index stays at 1
KeySequence_nextLookup_stuck(lookup, key) == lookup @@ (key :> 1)

\* lookup[key]++, or lookup[key] = 1 for a key not seen yet
KeySequence_nextLookup(lookup, key) ==
    IF key \in DOMAIN lookup
        THEN [lookup EXCEPT ![key] = @ + 1]
        ELSE lookup @@ (key :> 1)

KeySequence_nextKey(lookup, key) ==
    IF key \in DOMAIN lookup
        THEN key \o "_" \o ToString(lookup[key])
        ELSE key

(***************************************************************************)
(* JavaScript values held by attribute maps.  ref tells two objects with   *)
(* the same content apart (=== on objects is identity); it is 0 for        *)
(* primitives.                                                             *)
(***************************************************************************)
Str(s) == [t |-> "string", v |-> s, ref |-> 0]
TrueV == [t |-> "boolean", v |-> "true", ref |-> 0]
FalseV == [t |-> "boolean", v |-> "false", ref |-> 0]
NullV == [t |-> "null", v |-> "null", ref |-> 0]
Undefined == [t |-> "undefined", v |-> "undefined", ref |-> 0]
Obj(json, ref) == [t |-> "object", v |-> json, ref |-> ref]

\* value == null  (true of null and undefined)
IsNullish(val) == val.t \in {"null", "undefined"}

\* String(value), used by the className / id property setters
ToJSString(val) == IF val.t = "object" THEN "[object Object]" ELSE val.v

\* obj[name]
Get(obj, name) == IF name \in DOMAIN obj THEN obj[name] ELSE Undefined

\* delete obj[name]
Delete(obj, name) == [n \in (DOMAIN obj) \ {name} |-> obj[n]]

\* obj[name] = val
Put(obj, name, val) == [n \in (DOMAIN obj) \cup {name} |-> IF n = name THEN val ELSE obj[n]]

EmptyObject == [n \in {} |-> Undefined]

ATTR_XLINK_HREF == "xlink:href"
ATTR_HREF == "href"
NS_XLINK == "http://www.w3.org/1999/xlink"
NoNS == ""

\* VElement convertAttrValue: true -> "", object -> JSON, else String(value)
convertAttrValue(val) ==
    IF val = TrueV THEN "" ELSE val.v

\* The identity of an attribute of a real element: (namespace, local name)
AttrKey(ns, name) == IF ns = NoNS THEN name ELSE ns \o "|" \o name

\* The order in which for-in visits the names of an attribute map
AttrOrder ==
    <<"class", "id", "style", ATTR_XLINK_HREF, "data-x", "checked", "disabled", "selected", "value">>

NamesOf(obj) == SelectSeq(AttrOrder, LAMBDA n : n \in DOMAIN obj)

(***************************************************************************)
(* Real elements, as far as attributes go: attrs is the DOM attribute map  *)
(* (AttrKey -> string), props the expando properties assigned by           *)
(* assign(el, attrs), vEl the vElementByDOMNode entry.                     *)
(* An operation of the log is [op, name, val].                             *)
(***************************************************************************)
DomOp(op, name, val) == [op |-> op, name |-> name, val |-> val]

\* el.setAttribute(name, value) / el.setAttributeNS(ns, name, value)
setAttribute(r, ns, name, val) ==
    [el |-> [r.el EXCEPT !.attrs = Put(@, AttrKey(ns, name), val)],
     ops |-> Append(r.ops, DomOp("setAttribute", AttrKey(ns, name), val))]

\* el.removeAttribute(name) / el.removeAttributeNS(ns, name)
removeAttribute(r, ns, name) ==
    [el |-> [r.el EXCEPT !.attrs = Delete(@, AttrKey(ns, name))],
     ops |-> Append(r.ops, DomOp("removeAttribute", AttrKey(ns, name), ""))]

\* el.className = value, el.id = value: reflected into the attribute
setReflected(r, name, val) ==
    [el |-> [r.el EXCEPT !.attrs = Put(@, name, ToJSString(val))],
     ops |-> Append(r.ops, DomOp("setProperty", name, ToJSString(val)))]

\* el.style.cssText = value: a string is kept, anything else parses to nothing
setCssText(r, val) ==
    [el |-> [r.el EXCEPT !.attrs = Put(@, "style", IF val.t = "string" THEN val.v ELSE "")],
     ops |-> Append(r.ops, DomOp("setProperty", "style", ToJSString(val)))]

\* assign(el, attrs): every own property of attrs is copied onto the element
RECURSIVE assign(_, _, _)
assign(r, attrs, names) ==
    IF names = <<>> THEN r
    ELSE LET n == Head(names)
         IN assign([el |-> [r.el EXCEPT !.props = Put(@, n, attrs[n])],
                    ops |-> Append(r.ops, DomOp("assign", n, ToJSString(attrs[n])))],
                   attrs, Tail(names))

\* VElement.bF_: the identity unless preserve-attrs is loaded (it is not)
removePreservedAttributes(attrs) == attrs

(***************************************************************************)
(* Keys.  aE_ is a string, null (an element or component built without a   *)
(* key) or undefined (a text or comment node, a preserved placeholder, a   *)
(* real node keysByDOMNode knows nothing about).                           *)
(***************************************************************************)
UndefKey == ""
NullKey == "<null>"
IsKey(key) == key \notin {UndefKey, NullKey}

(***************************************************************************)
(* Virtual nodes.  One record shape serves every kind:                     *)
(*   nodeType aD_, nodeName aB_ (the type name for a component of the      *)
(*   template output), key aE_, owner aF_ (component id, "" is null),      *)
(*   attrs bA_,                                                            *)
(*   attrsId  the identity of the attrs object (0: a fresh object of this  *)
(*            render; n > 0: the n-th hoisted constant object),            *)
(*   flags _f_, constId aI_ (0 is undefined), value aH_ (the input for a   *)
(*   component of the template output), preserve aG_,                      *)
(*   comp _b_ (component id, "" is none), kids the child list reached      *)
(*   through S_ / aw_.                                                     *)
(***************************************************************************)
VNode(nodeType, nodeName, key, attrs, attrsId, flags, constId, value, preserve, comp, kids) ==
    [nodeType |-> nodeType, nodeName |-> nodeName, key |-> key, owner |-> "", attrs |-> attrs,
     attrsId |-> attrsId, flags |-> flags, constId |-> constId, value |-> value,
     preserve |-> preserve, comp |-> comp, kids |-> kids]

\* new VElement(tagName, attrs, key, ownerComponent, childCount, flags, props)
VElement(tagName, attrs, attrsId, key, flags, constId, kids) ==
    VNode(ELEMENT_NODE, tagName, key, attrs, attrsId, flags, constId, "", FALSE, "", kids)

\* new VText(value)
VText(value) ==
    VNode(TEXT_NODE, "", UndefKey, EmptyObject, 0, 0, 0, value, FALSE, "", <<>>)

\* new VComment(value)
VComment(value) ==
    VNode(COMMENT_NODE, "", UndefKey, EmptyObject, 0, 0, 0, value, FALSE, "", <<>>)

\* new VFragment(key, ownerComponent, preserve)
VFragment(key, preserve, kids) ==
    VNode(FRAGMENT_NODE, "", key, EmptyObject, 0, 0, 0, "", preserve, "", kids)

\* new VComponent(component, key, ownerComponent, preserve)
VComponent(comp, key, preserve, kids) ==
    VNode(COMPONENT_NODE, "", key, EmptyObject, 0, 0, 0, "", preserve, comp, kids)

\* the absent virtual node (vElementByDOMNode.get(node) === undefined)
NoVNode == VNode(0, "", UndefKey, EmptyObject, 0, 0, 0, "", FALSE, "", <<>>)

\* what vElementByDOMNode keeps of a virtual node: morphdom reads its name,
\* key, attributes, flags and constant id, never its children
Snapshot(vNode) == [vNode EXCEPT !.kids = <<>>]

\* oldAttrs === attrs : the same hoisted object
SameAttrsObject(vFromEl, toEl) == vFromEl.attrsId # 0 /\ vFromEl.attrsId = toEl.attrsId

(***************************************************************************)
(* VElement.aC_, the attribute part: the attributes a new real element     *)
(* gets from its virtual element.                                          *)
(***************************************************************************)
RECURSIVE aC_attrs(_, _, _)
aC_attrs(r, attributes, names) ==
    IF names = <<>> THEN r
    ELSE LET attrName == Head(names)
             attrValue == attributes[attrName]
             next == IF attrValue # FalseV /\ ~IsNullish(attrValue)
                        THEN IF attrName = ATTR_XLINK_HREF
                                THEN setAttribute(r, NS_XLINK, ATTR_HREF, convertAttrValue(attrValue))
                                ELSE setAttribute(r, NoNS, attrName, convertAttrValue(attrValue))
                        ELSE r
         IN aC_attrs(next, attributes, Tail(names))

NewEl == [attrs |-> EmptyObject, props |-> EmptyObject, vEl |-> NoVNode]

\* el = doc.createElement(tagName); copy the attributes; vElementByDOMNode.set(el, this)
aC_(r, vEl) ==
    LET made == IF HasFlag(vEl.flags, FLAG_CUSTOM_ELEMENT)
                    THEN assign(r, vEl.attrs, NamesOf(vEl.attrs))
                    ELSE aC_attrs(r, vEl.attrs, NamesOf(vEl.attrs))
    IN [made EXCEPT !.el.vEl = Snapshot(vEl)]

(***************************************************************************)
(* VElement.aA_ (morphAttrs).                                              *)
(***************************************************************************)
\* for (attrName in attrs) { ... }
RECURSIVE aA_setLoop(_, _, _, _)
aA_setLoop(r, oldAttrs, attrs, names) ==
    IF names = <<>> THEN r
    ELSE LET attrValue == attrs[Head(names)]
             isXlink == Head(names) = ATTR_XLINK_HREF
             namespaceURI == IF isXlink THEN NS_XLINK ELSE NoNS
             attrName == IF isXlink THEN ATTR_HREF ELSE Head(names)
             next == IF IsNullish(attrValue) \/ attrValue = FalseV
                        THEN removeAttribute(r, namespaceURI, attrName)
                        ELSE IF Get(oldAttrs, attrName) # attrValue
                                THEN setAttribute(r, namespaceURI, attrName, convertAttrValue(attrValue))
                                ELSE r
         IN aA_setLoop(next, oldAttrs, attrs, Tail(names))

\* for (attrName in oldAttrs) { if (!(attrName in attrs)) ... }
RECURSIVE aA_removeLoop(_, _, _)
aA_removeLoop(r, attrs, names) ==
    IF names = <<>> THEN r
    ELSE LET attrName == Head(names)
             next == IF attrName \notin DOMAIN attrs
                        THEN IF attrName = ATTR_XLINK_HREF
                                THEN removeAttribute(r, ATTR_XLINK_HREF, ATTR_HREF)
                                ELSE removeAttribute(r, NoNS, attrName)
                        ELSE r
         IN aA_removeLoop(next, attrs, Tail(names))

aA_simple(r, oldAttrs, attrs) ==
    LET r1 == IF Get(oldAttrs, "class") # Get(attrs, "class")
                 THEN setReflected(r, "class", Get(attrs, "class")) ELSE r
        r2 == IF Get(oldAttrs, "id") # Get(attrs, "id")
                 THEN setReflected(r1, "id", Get(attrs, "id")) ELSE r1
    IN IF Get(oldAttrs, "style") # Get(attrs, "style")
          THEN setCssText(r2, Get(attrs, "style")) ELSE r2

aA_(r0, vFromEl, toEl) ==
    LET r == [r0 EXCEPT !.el.vEl = Snapshot(toEl)]
        attrs == removePreservedAttributes(toEl.attrs)
        oldAttrs == removePreservedAttributes(vFromEl.attrs)
    IN IF HasFlag(toEl.flags, FLAG_CUSTOM_ELEMENT)
          THEN assign(r, toEl.attrs, NamesOf(toEl.attrs))
       ELSE IF SameAttrsObject(vFromEl, toEl)
          THEN r
       ELSE IF HasFlag(toEl.flags, FLAG_SIMPLE_ATTRS) /\ HasFlag(vFromEl.flags, FLAG_SIMPLE_ATTRS)
          THEN aA_simple(r, oldAttrs, attrs)
       ELSE LET r1 == aA_setLoop(r, oldAttrs, attrs, NamesOf(attrs))
            IN IF toEl.key = NullKey
                  THEN aA_removeLoop(r1, attrs, NamesOf(oldAttrs))
                  ELSE r1

(***************************************************************************)
(* The pass state.  The operators of a pass thread one record S through    *)
(* the code they model:                                                    *)
(*   N       real nodes, id -> node (a new node takes the next id)         *)
(*   C       component instances, id -> instance                           *)
(*   lookup  componentLookup                                               *)
(*   det     detachedNodes of the running morphdom                         *)
(*   ks      keySequences of the running morphdom (component id -> _B_)    *)
(*   z       globalComponentsContext._z_, the ids rendered in this pass    *)
(*   defs    componentsContext._r_, the component definitions of the pass  *)
(*   dks     ComponentDef.w_ of each definition (definition id -> _B_)     *)
(*   phase   "render", "morph" or "init"                                   *)
(*   log     the operations done on real nodes                             *)
(*   ev      the lifecycle events emitted                                  *)
(*   err     an exception (TypeError, NotFoundError) has been thrown       *)
(***************************************************************************)
NoNode == 0

\* A real node.  Every kind has the same fields: parent and kids are the
\* tree links of DOM nodes, fragment the back link of a marker text node,
\* startNode, endNode and detachedContainer the fields of a fragment
\* object; key, vEl, comp and detached are the entries of keysByDOMNode,
\* vElementByDOMNode, componentByDOMNode and detachedByDOMNode for the node.
Node(nodeType, nodeName, nodeValue) ==
    [nodeType |-> nodeType, nodeName |-> nodeName, nodeValue |-> nodeValue,
     attrs |-> EmptyObject, props |-> EmptyObject, vEl |-> NoVNode,
     parent |-> NoNode, kids |-> <<>>, fragment |-> NoNode,
     startNode |-> NoNode, endNode |-> NoNode, detachedContainer |-> NoNode,
     key |-> UndefKey, comp |-> "", detached |-> ""]

\* detachedByDOMNode.set(node, ownerComponent || true)
DetachedTrue == "<true>"

Op(op, node, name, val) == [op |-> op, node |-> node, name |-> name, val |-> val]

Fail(S) == [S EXCEPT !.err = TRUE]

IndexOf(seq, x) == CHOOSE i \in 1..Len(seq) : seq[i] = x

Without(seq, x) == SelectSeq(seq, LAMBDA y : y # x)

InsertAt(seq, i, x) == SubSeq(seq, 1, i - 1) \o <<x>> \o SubSeq(seq, i, Len(seq))

\* node.nextSibling of a DOM node
RawNext(N, node) ==
    LET p == N[node].parent
    IN IF p = NoNode THEN NoNode
       ELSE LET i == IndexOf(N[p].kids, node)
            IN IF i = Len(N[p].kids) THEN NoNode ELSE N[p].kids[i + 1]

IsFragment(S, node) == node # NoNode /\ S.N[node].nodeType = FRAGMENT_NODE

\* parent.removeChild(node)
dom_removeChild(S, node) ==
    LET p == S.N[node].parent
    IN [S EXCEPT !.N = [@ EXCEPT ![p].kids = Without(@, node), ![node].parent = NoNode],
                 !.log = Append(@, Op("removeChild", node, "", ""))]

\* parent.insertBefore(node, ref) and, with opName "appendChild" and no ref,
\* parent.appendChild(node): the node leaves its parent and enters the new one
dom_insertBefore(S, parent, node, ref, opName) ==
    IF parent = NoNode THEN Fail(S)
    ELSE IF ref # NoNode /\ S.N[ref].parent # parent THEN Fail(S)
    ELSE LET ref2 == IF ref = node THEN RawNext(S.N, node) ELSE ref
             old == S.N[node].parent
             N1 == IF old = NoNode THEN S.N
                   ELSE [S.N EXCEPT ![old].kids = Without(@, node)]
             kids == N1[parent].kids
             pos == IF ref2 = NoNode THEN Len(kids) + 1 ELSE IndexOf(kids, ref2)
         IN [S EXCEPT !.N = [N1 EXCEPT ![parent].kids = InsertAt(kids, pos, node),
                                       ![node].parent = parent],
                      !.log = Append(@, Op(opName, node, "", ""))]

(***************************************************************************)
(* morphdom/fragment and morphdom/helpers.                                 *)
(***************************************************************************)
\* fragment.nodes: from the start marker to the end marker; <<>> when the
\* walk runs off the sibling list (current.nextSibling of null)
RECURSIVE fragment_walk(_, _, _, _)
fragment_walk(N, current, endNode, nodes) ==
    IF current = NoNode THEN <<>>
    ELSE IF current = endNode THEN Append(nodes, current)
    ELSE fragment_walk(N, RawNext(N, current), endNode, Append(nodes, current))

fragment_nodes(S, fragment) ==
    fragment_walk(S.N, S.N[fragment].startNode, S.N[fragment].endNode, <<>>)

\* fragment.firstChild / element.firstChild
node_firstChild(S, node) ==
    IF IsFragment(S, node)
        THEN LET first == RawNext(S.N, S.N[node].startNode)
             IN IF first = S.N[node].endNode THEN NoNode ELSE first
        ELSE IF S.N[node].kids = <<>> THEN NoNode ELSE Head(S.N[node].kids)

\* fragment.nextSibling / node.nextSibling
node_nextSibling(S, node) ==
    IF IsFragment(S, node) THEN RawNext(S.N, S.N[node].endNode) ELSE RawNext(S.N, node)

\* fragment.parentNode / node.parentNode
node_parentNode(S, node) ==
    IF IsFragment(S, node)
        THEN LET p == S.N[S.N[node].startNode].parent
             IN IF p = S.N[node].detachedContainer THEN NoNode ELSE p
        ELSE S.N[node].parent

\* helpers.insertBefore(node, referenceNode, parentNode), with
\* fragment.insertInto and fragment.insertBefore
RECURSIVE insertBefore(_, _, _, _)
RECURSIVE fragment_insertInto(_, _, _, _)
insertBefore(S, node, referenceNode, parentNode) ==
    IF S.err THEN S
    ELSE IF IsFragment(S, node)
        THEN LET nodes == fragment_nodes(S, node)
             IN IF nodes = <<>> THEN Fail(S)
                ELSE fragment_insertInto(S, nodes, referenceNode, parentNode)
    ELSE LET ref == IF IsFragment(S, referenceNode)
                       THEN S.N[referenceNode].startNode ELSE referenceNode
         IN IF parentNode = NoNode THEN Fail(S)
            ELSE IF IsFragment(S, parentNode)
               THEN LET actualReference == IF ref = NoNode THEN S.N[parentNode].endNode ELSE ref
                    IN insertBefore(S, node, actualReference,
                                    S.N[S.N[parentNode].startNode].parent)
               ELSE dom_insertBefore(S, parentNode, node, ref, "insertBefore")

fragment_insertInto(S, nodes, referenceNode, newParentNode) ==
    IF nodes = <<>> THEN S
    ELSE fragment_insertInto(insertBefore(S, Head(nodes), referenceNode, newParentNode),
                             Tail(nodes), referenceNode, newParentNode)

\* helpers.insertAfter
insertAfter(S, node, referenceNode, parentNode) ==
    insertBefore(S, node,
                 IF referenceNode = NoNode THEN NoNode ELSE node_nextSibling(S, referenceNode),
                 parentNode)

\* helpers.nextSibling
nextSibling(S, node) ==
    LET Of(next) ==
            IF next # NoNode /\ S.N[next].fragment # NoNode
                THEN IF next = S.N[S.N[next].fragment].startNode THEN S.N[next].fragment ELSE NoNode
                ELSE next
    IN Of(node_nextSibling(S, node))

\* helpers.firstChild
firstChild(S, node) ==
    LET Of(next) == IF next # NoNode /\ S.N[next].fragment # NoNode THEN S.N[next].fragment ELSE next
    IN Of(node_firstChild(S, node))

\* fragment.remove
RECURSIVE fragment_remove(_, _, _)
fragment_remove(S, nodes, detachedContainer) ==
    IF nodes = <<>> \/ S.err THEN S
    ELSE fragment_remove(dom_insertBefore(S, detachedContainer, Head(nodes), NoNode, "appendChild"),
                         Tail(nodes), detachedContainer)

\* helpers.removeChild
removeChild(S, node) ==
    IF IsFragment(S, node)
        THEN LET nodes == fragment_nodes(S, node)
             IN IF nodes = <<>> THEN Fail(S)
                ELSE fragment_remove(S, nodes, S.N[node].detachedContainer)
        ELSE IF S.N[node].parent = NoNode THEN Fail(S) ELSE dom_removeChild(S, node)

\* createFragmentNode() as morphdom and VFragment.aC_ call it, without
\* arguments: the two markers start in the fragment's detached container.
\* The new fragment object is node Len(S.N) + 1.
createFragmentNode(S) ==
    LET f == Len(S.N) + 1
        fragment == [Node(FRAGMENT_NODE, "", "") EXCEPT
                        !.startNode = f + 1, !.endNode = f + 2, !.detachedContainer = f + 3]
        startNode == [Node(TEXT_NODE, "", "") EXCEPT !.fragment = f, !.parent = f + 3]
        endNode == [Node(TEXT_NODE, "", "") EXCEPT !.fragment = f, !.parent = f + 3]
        detachedContainer == [Node(DOCUMENT_FRAGMENT_NODE, "", "") EXCEPT !.kids = <<f + 1, f + 2>>]
    IN [S EXCEPT !.N = @ \o <<fragment, startNode, endNode, detachedContainer>>]

(***************************************************************************)
(* Component instances (components/Component) and the destruction of real  *)
(* nodes (components/util).                                                *)
(*   h_ root fragment, v_ keyed elements (key -> node), vr_ the objects    *)
(*   v_ holds under repeated "[]" keys (key -> component id -> node),      *)
(*   q_ destroyed, o_ mounted, l_ type name, n_ input, s_ input changed    *)
(***************************************************************************)
EmptyKeyed == [k \in {} |-> NoNode]

EmptyRepeated == [k \in {} |-> EmptyKeyed]

UndefInput == "<undefined>"

\* new Component(id), registered under its type name
NewComponent(typeName) ==
    [h_ |-> NoNode, v_ |-> EmptyKeyed, vr_ |-> EmptyRepeated, q_ |-> FALSE, o_ |-> FALSE,
     l_ |-> typeName, n_ |-> UndefInput, s_ |-> FALSE]

\* keys of the form "@..." name elements by their owner, "...[]" repeat
AtKeys == {"@u"}

RepeatedKeys == {"r[]"}

KeyLiterals == {"a", "b", "c", "k", "m", "0"} \cup AtKeys \cup RepeatedKeys

isAutoKey(key) == key \notin AtKeys

IsRepeatedKey(key) == key \in RepeatedKeys

\* emitLifecycleEvent(component, eventType)
emitLifecycleEvent(S, component, eventType) ==
    [S EXCEPT !.ev = Append(@, [c |-> component, e |-> eventType, phase |-> S.phase])]

\* a lookup that never finds the key
KeyedGet_lost(S, component, key) == NoNode

\* component.v_[key]
KeyedGet(S, component, key) ==
    IF key \in DOMAIN S.C[component].v_ THEN S.C[component].v_[key] ELSE NoNode

\* component.v_[key] = node
KeyedPut(S, component, key, node) ==
    [S EXCEPT !.C[component].v_ = Put(@, key, node),
              !.C[component].vr_ = Delete(@, key)]

\* Component.y_
Component_y_(S, component) ==
    IF S.C[component].q_ THEN S
    ELSE LET S1 == emitLifecycleEvent(S, component, "destroy")
             h == S.C[component].h_
         IN IF h = NoNode
               THEN Fail([S1 EXCEPT !.C[component].q_ = TRUE])
               ELSE [S1 EXCEPT !.C[component].q_ = TRUE,
                               !.C[component].h_ = NoNode,
                               !.N[h].comp = ""]

destroyComponentForNode(S, node) ==
    LET holder == IF S.N[node].fragment # NoNode THEN S.N[node].fragment ELSE node
        componentToDestroy == S.N[holder].comp
    IN IF componentToDestroy # ""
          THEN [Component_y_(S, componentToDestroy) EXCEPT !.lookup = @ \ {componentToDestroy}]
          ELSE S

\* the nodes the child loop of destroyNodeRecursive visits
ChildrenToDestroy(S, node) ==
    IF IsFragment(S, node)
        THEN LET nodes == fragment_nodes(S, node)
             IN IF Len(nodes) < 2 THEN <<>> ELSE SubSeq(nodes, 2, Len(nodes) - 1)
        ELSE S.N[node].kids

RECURSIVE destroyNodeRecursive(_, _, _)
RECURSIVE destroyNodes(_, _, _)
destroyNodeRecursive(S, node, component) ==
    LET Rest(S1) ==
            IF S1.err THEN S1
            ELSE IF S1.N[node].nodeType \in {ELEMENT_NODE, FRAGMENT_NODE}
               THEN LET key == S1.N[node].key
                        Children(S2) == destroyNodes(S2, ChildrenToDestroy(S2, node), component)
                    IN Children(IF component # "" /\ IsKey(key) /\ KeyedGet(S1, component, key) = node
                                   THEN [S1 EXCEPT !.C[component].v_ = Delete(@, key)]
                                   ELSE S1)
               ELSE S1
    IN Rest(destroyComponentForNode(S, node))

destroyNodes(S, nodes, component) ==
    IF nodes = <<>> \/ S.err THEN S
    ELSE destroyNodes(destroyNodeRecursive(S, Head(nodes), component), Tail(nodes), component)

\* nodes.forEach of Component.destroy
RECURSIVE destroyRootNodes(_, _)
destroyRootNodes(S, nodes) ==
    IF nodes = <<>> \/ S.err THEN S
    ELSE LET Remove(S1) ==
                 IF S1.err THEN S1
                 ELSE IF S1.N[Head(nodes)].parent = NoNode THEN Fail(S1)
                 ELSE destroyRootNodes(dom_removeChild(S1, Head(nodes)), Tail(nodes))
         IN Remove(destroyNodeRecursive(S, Head(nodes), ""))

\* Component.destroy
Component_destroy(S, component) ==
    IF S.C[component].q_ THEN S
    ELSE LET root == S.C[component].h_
             Forget(S1) ==
                 IF S1.err THEN S1
                 ELSE [S1 EXCEPT !.lookup = @ \ {component},
                                 !.C[component].h_ = NoNode,
                                 !.C[component].v_ = EmptyKeyed,
                                 !.C[component].vr_ = EmptyRepeated]
         IN IF root = NoNode THEN Fail(S)
            ELSE LET nodes == fragment_nodes(S, root)
                 IN IF nodes = <<>> THEN Fail(S)
                    ELSE Forget(destroyRootNodes(Component_y_(S, component), nodes))

\* util normalizeComponentKey: "#<parentId>-<key>" loses its prefix
normalizeComponentKey(key, parentId) ==
    LET rest == {k \in KeyLiterals : key = "#" \o parentId \o "-" \o k}
    IN IF rest # {} THEN CHOOSE k \in rest : TRUE ELSE key

\* util addComponentRootToKeyedElements(component.v_, key, rootNode, componentId)
addComponentRootToKeyedElements(S, component, key, rootNode, componentId) ==
    IF IsRepeatedKey(key)
        THEN LET repeatedElementsForKey ==
                     IF key \in DOMAIN S.C[component].vr_
                         THEN S.C[component].vr_[key] ELSE EmptyKeyed
             IN [S EXCEPT !.C[component].vr_ = Put(@, key, Put(repeatedElementsForKey, componentId, rootNode)),
                          !.C[component].v_ = Delete(@, key)]
        ELSE KeyedPut(S, component, key, rootNode)

(***************************************************************************)
(* morphdom/index.                                                         *)
(* The model follows client-side renders: isRerenderInBrowser is false,    *)
(* the preserved-element tables _x_ and _y_ are empty, and the tags of the *)
(* templates have no special element handler.                              *)
(***************************************************************************)
\* a comparison that takes every pair of elements for compatible
compareNodeNames_any(fromEl, toEl) == TRUE

\* compareNodeNames(fromEl, toEl)
compareNodeNames(fromEl, toEl) == fromEl.nodeName = toEl.nodeName

AppendOps(log, node, ops) ==
    log \o [i \in 1..Len(ops) |-> Op(ops[i].op, node, ops[i].name, ops[i].val)]

\* vNode.aC_(doc): the new real node is node Len(S.N) + 1
materialize(S, vNode) ==
    IF vNode.nodeType = ELEMENT_NODE
        THEN LET Made(r) == [S EXCEPT !.N = Append(@, r.el),
                                      !.log = AppendOps(@, Len(S.N) + 1, r.ops)]
             IN Made(aC_([el |-> Node(ELEMENT_NODE, vNode.nodeName, ""), ops |-> <<>>], vNode))
    ELSE IF vNode.nodeType = FRAGMENT_NODE
        THEN [createFragmentNode(S) EXCEPT !.N[Len(S.N) + 1].key = vNode.key,
                                           !.N[Len(S.N) + 1].vEl = Snapshot(vNode)]
    ELSE [S EXCEPT !.N = Append(@, Node(vNode.nodeType, "", vNode.value))]

\* a step of the pass on a real node (history of the pass): detachNode put
\* it on detachedNodes, or target i of the children of fromNode, of tag
\* name tag, found it in the key table
Mark(op, node, fromNode, i, tag) == [op |-> op, node |-> node, from |-> fromNode, i |-> i, tag |-> tag]

\* a detachNode that leaves the node where it is
detachNode_keep(S, node, parentNode, ownerComponent) == S

\* detachNode(node, parentNode, ownerComponent)
detachNode(S, node, parentNode, ownerComponent) ==
    IF S.err THEN S
    ELSE IF S.N[node].nodeType \in {ELEMENT_NODE, FRAGMENT_NODE}
        THEN [S EXCEPT !.det = Append(@, node),
                       !.N[node].detached = IF ownerComponent # "" THEN ownerComponent ELSE DetachedTrue,
                       !.marks = Append(@, Mark("detach", node, parentNode, 0, ""))]
        ELSE LET Remove(S1) == IF S1.err THEN S1 ELSE removeChild(S1, node)
             IN Remove(destroyNodeRecursive(S, node, ""))

\* the loop variables of morphChildren that outlive an iteration: L.cf is
\* curFromNodeChild, L.fns fromNextSibling, L.cfk curFromNodeKey
Cursor(cf, fns, cfk) == [cf |-> cf, fns |-> fns, cfk |-> cfk]

\* keySequences[referenceComponent.id] || new KeySequence
KeySequenceOf(S, referenceComponent) ==
    IF referenceComponent \in DOMAIN S.ks THEN S.ks[referenceComponent] ELSE KeySequence

\* destroy the component of a real node unless it was rendered in this pass
DestroyUnlessRendered(S, fromComponent) ==
    IF fromComponent \notin S.z THEN Component_destroy(S, fromComponent) ELSE S

\* curToNodeChild = toNextSibling: target i of the children of fromNode is
\* done with (history of the pass)
Consumed(S, fromNode, toKids, i) ==
    IF S.err THEN S
    ELSE [S EXCEPT !.consumed = Append(@, [from |-> fromNode, i |-> i, n |-> Len(toKids)])]

\* one iteration of the loop over the left-over children of fromNode
\* (history of the pass)
Visited(S, fromNode, node) ==
    IF S.err THEN S ELSE [S EXCEPT !.tail = Append(@, [from |-> fromNode, node |-> node])]

\* detachedByDOMNode.set(matchingFromEl, undefined)
Undetach(S, node) == [S EXCEPT !.N[node].detached = ""]

\* matchingFromEl was found for target i of the children of fromNode
\* (history of the pass)
FoundByKey(S, node, fromNode, toKids, i) ==
    [S EXCEPT !.marks = Append(@, Mark("match", node, fromNode, i, toKids[i].nodeName))]

\* an unkeyed scan that goes by the tag name alone
isCompatible_byName(curVFromNodeChild, curToNodeChild) ==
    compareNodeNames(curVFromNodeChild, curToNodeChild)

\* isCompatible of two elements in the unkeyed scan: false when the real
\* element's virtual node has a key (curFromNodeKey = curVFromNodeChild.aE_)
isCompatible(curVFromNodeChild, curToNodeChild) ==
    ~IsKey(curVFromNodeChild.key) /\ compareNodeNames(curVFromNodeChild, curToNodeChild)

RECURSIVE morphChildren(_, _, _, _)
RECURSIVE morphOuter(_, _, _, _, _, _)
RECURSIVE morphComponentChild(_, _, _, _, _, _)
RECURSIVE morphKeyedChild(_, _, _, _, _, _)
RECURSIVE morphUnkeyedChild(_, _, _, _, _, _)
RECURSIVE morphLeftover(_, _, _, _)
RECURSIVE morphEl(_, _, _, _, _, _, _)
RECURSIVE insertVirtualNodeBefore(_, _, _, _, _, _, _)
RECURSIVE insertVirtualComponentBefore(_, _, _, _, _, _, _, _)

\* morphComponent(component, vComponent)
morphComponent(S, component, vComponent) ==
    IF S.err THEN S
    ELSE IF S.C[component].h_ = NoNode THEN Fail(S)
    ELSE morphChildren(S, S.C[component].h_, vComponent, component)

\* insertVirtualNodeBefore(vNode, key, referenceEl, parentEl, ownerComponent, parentComponent)
insertVirtualNodeBefore(S, vNode, key, referenceEl, parentEl, ownerComponent, parentComponent) ==
    IF S.err THEN S
    ELSE LET realNode == Len(S.N) + 1
             keyed == IF isAutoKey(key) THEN parentComponent ELSE ownerComponent
             Children(S2) ==
                 IF S2.err THEN S2 ELSE morphChildren(S2, realNode, vNode, parentComponent)
             Inserted(S1) ==
                 IF S1.err THEN S1
                 ELSE IF vNode.nodeType \in {ELEMENT_NODE, FRAGMENT_NODE}
                    THEN Children(IF ~IsKey(key) THEN S1
                                  ELSE IF keyed = "" THEN Fail(S1)
                                  ELSE KeyedPut([S1 EXCEPT !.N[realNode].key = key],
                                                keyed, key, realNode))
                    ELSE S1
         IN Inserted(insertBefore(materialize(S, vNode), realNode, referenceEl, parentEl))

\* insertVirtualComponentBefore(vComponent, referenceNode, referenceNodeParentEl, ...)
insertVirtualComponentBefore(S, vComponent, referenceNode, referenceNodeParentEl, component, key, ownerComponent, parentComponent) ==
    LET rootNode == Len(S.N) + 1
        Register(S2) ==
            IF IsKey(key) /\ ownerComponent # ""
                THEN IF parentComponent = "" THEN Fail(S2)
                     ELSE LET normal == normalizeComponentKey(key, parentComponent)
                          IN [addComponentRootToKeyedElements(S2, ownerComponent, normal,
                                                              rootNode, component)
                                 EXCEPT !.N[rootNode].key = normal]
                ELSE S2
        Inserted(S1) ==
            IF S1.err THEN S1
            ELSE morphComponent(Register([S1 EXCEPT !.C[component].h_ = rootNode,
                                                    !.N[rootNode].comp = component]),
                                component, vComponent)
    IN Inserted(insertBefore(createFragmentNode(S), rootNode, referenceNode, referenceNodeParentEl))

morphChildren(S, fromNode, toNode, parentComponent) ==
    morphOuter(S, fromNode, toNode.kids, 1, parentComponent,
               Cursor(firstChild(S, fromNode), NoNode, UndefKey))

\* outer: while (curToNodeChild) { ... } followed by the leftover loop
morphOuter(S, fromNode, toKids, i, parentComponent, L) ==
    IF S.err THEN S
    ELSE IF i > Len(toKids) THEN morphLeftover(S, fromNode, parentComponent, L)
    ELSE IF toKids[i].nodeType = COMPONENT_NODE
        THEN morphComponentChild(S, fromNode, toKids, i, parentComponent, L)
    ELSE IF IsKey(toKids[i].key)
        THEN morphKeyedChild(S, fromNode, toKids, i, parentComponent, L)
    ELSE morphUnkeyedChild(S, fromNode, toKids, i, parentComponent, L)

\* if (curToNodeType === COMPONENT_NODE) { ... }
morphComponentChild(S, fromNode, toKids, i, parentComponent, L) ==
    LET curToNodeChild == toKids[i]
        ownerComponent == IF curToNodeChild.owner # "" THEN curToNodeChild.owner ELSE parentComponent
        component == curToNodeChild.comp
    IN IF component \notin S.lookup
          THEN morphOuter(Consumed(insertVirtualComponentBefore(S, curToNodeChild, L.cf, fromNode,
                                                                component, curToNodeChild.key,
                                                                ownerComponent, parentComponent),
                                   fromNode, toKids, i),
                          fromNode, toKids, i + 1, parentComponent, L)
       ELSE IF S.C[component].h_ # L.cf
          THEN LET fromComponent == IF L.cf = NoNode THEN "" ELSE S.N[L.cf].comp
               IN IF fromComponent # "" /\ fromComponent \notin S.z
                     THEN IF S.C[fromComponent].h_ = NoNode THEN Fail(S)
                          ELSE morphOuter(Component_destroy(S, fromComponent), fromNode, toKids, i,
                                          parentComponent,
                                          [L EXCEPT !.cf = nextSibling(S, S.C[fromComponent].h_)])
                     ELSE IF S.C[component].h_ = NoNode THEN Fail(S)
                     ELSE LET S1 == insertBefore(S, S.C[component].h_, L.cf, fromNode)
                              S2 == IF curToNodeChild.preserve THEN S1
                                    ELSE morphComponent(S1, component, curToNodeChild)
                          IN morphOuter(Consumed(S2, fromNode, toKids, i), fromNode, toKids, i + 1,
                                        parentComponent, L)
       ELSE LET next == IF L.cf = NoNode THEN NoNode ELSE nextSibling(S, L.cf)
                S1 == IF curToNodeChild.preserve THEN S
                      ELSE morphComponent(S, component, curToNodeChild)
            IN morphOuter(Consumed(S1, fromNode, toKids, i), fromNode, toKids, i + 1,
                          parentComponent, [L EXCEPT !.cf = next])

\* else if (curToNodeKey) { ... }
morphKeyedChild(S, fromNode, toKids, i, parentComponent, L) ==
    LET curToNodeChild == toKids[i]
        toNextSibling == IF i < Len(toKids) THEN toKids[i + 1] ELSE NoVNode
        ownerComponent == IF curToNodeChild.owner # "" THEN curToNodeChild.owner ELSE parentComponent
        auto == isAutoKey(curToNodeChild.key)
        literal == IF auto /\ ownerComponent # parentComponent
                      THEN curToNodeChild.key \o ":" \o ownerComponent
                      ELSE curToNodeChild.key
        referenceComponent == IF auto THEN parentComponent ELSE ownerComponent
    IN IF referenceComponent = "" THEN Fail(S)
       ELSE
       LET keySequence == KeySequenceOf(S, referenceComponent)
           curToNodeKey == KeySequence_nextKey(keySequence, literal)
           S1 == [S EXCEPT !.ks = Put(@, referenceComponent, KeySequence_nextLookup(keySequence, literal))]
           cf == L.cf
           curFromNodeKey == IF cf # NoNode THEN S.N[cf].key ELSE UndefKey
           fromNextSibling == IF cf # NoNode THEN nextSibling(S, cf) ELSE L.fns
           preserved == HasFlag(curToNodeChild.flags, FLAG_PRESERVE) \/ curToNodeChild.preserve
           Continue(S9, fns) ==
               morphOuter(Consumed(S9, fromNode, toKids, i), fromNode, toKids, i + 1,
                          parentComponent, Cursor(fns, fns, curFromNodeKey))
       IN IF curFromNodeKey = curToNodeKey
             THEN IF preserved THEN Continue(S1, fromNextSibling)
                  ELSE LET curVFromNodeChild == S.N[cf].vEl
                       IN IF curVFromNodeChild = NoVNode THEN Fail(S1)
                          ELSE IF compareNodeNames(curToNodeChild, curVFromNodeChild)
                             THEN Continue(morphEl(S1, cf, curVFromNodeChild, curToNodeChild,
                                                   curToNodeKey, ownerComponent, parentComponent),
                                           fromNextSibling)
                             ELSE Continue(insertVirtualNodeBefore(
                                               detachNode(S1, cf, fromNode, ownerComponent),
                                               curToNodeChild, curToNodeKey, cf, fromNode,
                                               ownerComponent, parentComponent),
                                           fromNextSibling)
          ELSE IF curToNodeKey \in DOMAIN S1.C[referenceComponent].vr_ THEN Fail(S1)
          ELSE LET matchingFromEl == KeyedGet(S1, referenceComponent, curToNodeKey)
               IN IF matchingFromEl = NoNode
                     THEN Continue(insertVirtualNodeBefore(S1, curToNodeChild, curToNodeKey, cf,
                                                           fromNode, ownerComponent, parentComponent),
                                   cf)
                  ELSE LET S2 == FoundByKey(Undetach(S1, matchingFromEl), matchingFromEl,
                                            fromNode, toKids, i)
                           curVFromNodeChild == S2.N[matchingFromEl].vEl
                       IN IF preserved
                             THEN Continue(insertBefore(S2, matchingFromEl, cf, fromNode), cf)
                          ELSE IF curVFromNodeChild = NoVNode THEN Fail(S2)
                          ELSE IF ~compareNodeNames(curVFromNodeChild, curToNodeChild)
                             THEN Continue(detachNode(
                                               insertVirtualNodeBefore(S2, curToNodeChild, curToNodeKey,
                                                                       cf, fromNode, ownerComponent,
                                                                       parentComponent),
                                               matchingFromEl, fromNode, ownerComponent),
                                           fromNextSibling)
                          ELSE IF fromNextSibling = matchingFromEl
                             THEN IF toNextSibling # NoVNode /\ toNextSibling.key = curFromNodeKey
                                     THEN \* single element swap
                                          Continue(morphEl(insertBefore(S2, matchingFromEl, cf, fromNode),
                                                           matchingFromEl, curVFromNodeChild,
                                                           curToNodeChild, curToNodeKey,
                                                           ownerComponent, parentComponent),
                                                   cf)
                                     ELSE \* single element removal
                                          LET S3 == IF cf # NoNode
                                                       THEN detachNode(S2, cf, fromNode, ownerComponent)
                                                       ELSE S2
                                          IN Continue(morphEl(S3, matchingFromEl, curVFromNodeChild,
                                                              curToNodeChild, curToNodeKey,
                                                              ownerComponent, parentComponent),
                                                      nextSibling(S2, fromNextSibling))
                             ELSE LET S3 == insertAfter(S2, matchingFromEl, cf, fromNode)
                                      S4 == IF cf # NoNode /\ ~S3.err
                                               THEN detachNode(S3, cf, fromNode, ownerComponent)
                                               ELSE S3
                                  IN Continue(morphEl(S4, matchingFromEl, curVFromNodeChild,
                                                      curToNodeChild, curToNodeKey,
                                                      ownerComponent, parentComponent),
                                              fromNextSibling)

\* while (curFromNodeChild) { ... } for an unkeyed target, then the append
morphUnkeyedChild(S, fromNode, toKids, i, parentComponent, L) ==
    LET curToNodeChild == toKids[i]
        ownerComponent == IF curToNodeChild.owner # "" THEN curToNodeChild.owner ELSE parentComponent
        cf == L.cf
    IN IF S.err THEN S
       ELSE IF cf = NoNode
          THEN morphOuter(Consumed(insertVirtualNodeBefore(S, curToNodeChild, curToNodeChild.key,
                                                           cf, fromNode, ownerComponent,
                                                           parentComponent),
                                   fromNode, toKids, i),
                          fromNode, toKids, i + 1, parentComponent,
                          [L EXCEPT !.cf = L.fns])
       ELSE LET fromNextSibling == nextSibling(S, cf)
                fromComponent == S.N[cf].comp
                curFromNodeType == S.N[cf].nodeType
                curVFromNodeChild == S.N[cf].vEl
                Skip(S9, cfk) ==
                    morphUnkeyedChild(S9, fromNode, toKids, i, parentComponent,
                                      Cursor(fromNextSibling, fromNextSibling, cfk))
                Matched(S9, cfk) ==
                    morphOuter(Consumed(S9, fromNode, toKids, i), fromNode, toKids, i + 1,
                               parentComponent, Cursor(fromNextSibling, fromNextSibling, cfk))
            IN IF fromComponent # ""
                  THEN Skip(DestroyUnlessRendered(S, fromComponent), L.cfk)
               ELSE IF curFromNodeType = curToNodeChild.nodeType /\ curFromNodeType = ELEMENT_NODE
                  THEN IF curVFromNodeChild = NoVNode
                          THEN Skip(S, L.cfk)
                       ELSE IF isCompatible(curVFromNodeChild, curToNodeChild)
                          THEN Matched(morphEl(S, cf, curVFromNodeChild, curToNodeChild,
                                               curToNodeChild.key, ownerComponent, parentComponent),
                                       curVFromNodeChild.key)
                       ELSE Skip(detachNode(S, cf, fromNode, ownerComponent), curVFromNodeChild.key)
               ELSE IF curFromNodeType = curToNodeChild.nodeType
                       /\ curFromNodeType \in {TEXT_NODE, COMMENT_NODE}
                  THEN Matched(IF S.N[cf].nodeValue # curToNodeChild.value
                                  THEN [S EXCEPT !.N[cf].nodeValue = curToNodeChild.value,
                                                 !.log = Append(@, Op("nodeValue", cf, "", curToNodeChild.value))]
                                  ELSE S,
                               L.cfk)
               ELSE Skip(detachNode(S, cf, fromNode, ownerComponent), L.cfk)

\* the loop over the real children left when the targets are used up
morphLeftover(S, fromNode, parentComponent, L) ==
    IF S.err \/ L.cf = NoNode THEN S
    ELSE LET cf == L.cf
             fromNextSibling == nextSibling(S, cf)
             fromComponent == S.N[cf].comp
             curVFromNodeChild == S.N[cf].vEl
             referenceComponent == IF isAutoKey(S.N[fromNode].key) THEN parentComponent
                                   ELSE curVFromNodeChild.owner
             Next(S9) == morphLeftover(Visited(S9, fromNode, cf), fromNode, parentComponent,
                                       Cursor(fromNextSibling, fromNextSibling, L.cfk))
         IN IF fromComponent # ""
               THEN Next(DestroyUnlessRendered(S, fromComponent))
               ELSE Next(detachNode(S, cf, fromNode, referenceComponent))

\* morphEl without the comparison of the constant ids
morphEl_alwaysPatch(S, fromEl, vFromEl, toEl, toElKey, ownerComponent, parentComponent) ==
    IF S.err THEN S
    ELSE LET Patched(r) ==
                 morphChildren([S EXCEPT !.N[fromEl] = r.el, !.log = AppendOps(@, fromEl, r.ops)],
                               fromEl, toEl, parentComponent)
         IN Patched(aA_([el |-> S.N[fromEl], ops |-> <<>>], vFromEl, toEl))

morphEl(S, fromEl, vFromEl, toEl, toElKey, ownerComponent, parentComponent) ==
    IF S.err THEN S
    ELSE IF toEl.constId # 0 /\ vFromEl.constId = toEl.constId THEN S
    ELSE LET Patched(r) ==
                 morphChildren([S EXCEPT !.N[fromEl] = r.el, !.log = AppendOps(@, fromEl, r.ops)],
                               fromEl, toEl, parentComponent)
         IN Patched(aA_([el |-> S.N[fromEl], ops |-> <<>>], vFromEl, toEl))

\* detachedNodes.forEach(...)
RECURSIVE flushDetached(_, _)
flushDetached(S, nodes) ==
    IF nodes = <<>> \/ S.err THEN S
    ELSE LET node == Head(nodes)
             detachedFromComponent == S.N[node].detached
             S1 == [S EXCEPT !.N[node].detached = ""]
             componentToDestroy == S.N[node].comp
             Remove(S2) == IF S2.err THEN S2 ELSE removeChild(S2, node)
         IN IF detachedFromComponent = "" THEN flushDetached(S, Tail(nodes))
            ELSE IF componentToDestroy # ""
               THEN flushDetached(Component_destroy(S1, componentToDestroy), Tail(nodes))
            ELSE IF node_parentNode(S1, node) # NoNode
               THEN flushDetached(
                        Remove(destroyNodeRecursive(S1, node,
                                   IF detachedFromComponent = DetachedTrue
                                       THEN "" ELSE detachedFromComponent)),
                        Tail(nodes))
            ELSE flushDetached(S1, Tail(nodes))

\* morphdom(fromNode, toNode, doc, componentsContext)
morphdom(S, fromNode, toNode) ==
    LET Flush(S1) == [flushDetached(S1, S1.det) EXCEPT !.det = <<>>]
    IN Flush(morphChildren([S EXCEPT !.det = <<>>, !.ks = [c \in {} |-> KeySequence],
                                     !.phase = "morph"],
                           fromNode, toNode, toNode.comp))

(***************************************************************************)
(* components/renderer, beginComponent and init-components.                *)
(* What a template renders is a list of virtual nodes in which a nested    *)
(* component tag is a COMPONENT_NODE carrying the type name (nodeName),    *)
(* the key given to the tag and the input (value); the renderer resolves   *)
(* it to a VComponent with the component id and the rendered body, or to   *)
(* the preserved placeholder of out.an_.                                   *)
(***************************************************************************)
\* a nested component tag of a template
ComponentTag(typeName, key, input) ==
    VNode(COMPONENT_NODE, typeName, key, EmptyObject, 0, 0, 0, input, FALSE, "", <<>>)

\* an element without attributes (attrs || EMPTY_OBJECT)
EMPTY_OBJECT_ID == 1

Plain(tagName, key, kids) == VElement(tagName, EmptyObject, EMPTY_OBJECT_ID, key, 0, 0, kids)

\* the templates of the nested component types: a keyed root element
\* whose text shows the input
TemplateOf(typeName, input) ==
    IF typeName = "X" THEN <<Plain("DIV", "0", <<VText(input)>>)>>
    ELSE <<Plain("SPAN", "0", <<>>), VText(input)>>

\* resolveComponentKey(key, parentComponentDef), for a key without "#"
resolveComponentKey(resolved, parentComponentDef) == parentComponentDef \o "-" \o resolved

RECURSIVE renderNodes(_, _, _, _)
RECURSIVE renderNode(_, _, _, _)
RECURSIVE renderer(_, _, _, _)

\* the body of a template or of an element, rendered in order
renderNodes(S, parentComponentDef, nodes, isRerender) ==
    IF nodes = <<>> \/ S.err THEN [S |-> S, out |-> <<>>]
    ELSE LET Rest(first) ==
                 LET Join(rest) == [S |-> rest.S, out |-> first.out \o rest.out]
                 IN Join(renderNodes(first.S, parentComponentDef, Tail(nodes), isRerender))
         IN Rest(renderNode(S, parentComponentDef, Head(nodes), isRerender))

renderNode(S, parentComponentDef, node, isRerender) ==
    IF node.nodeType = COMPONENT_NODE
        THEN renderer(S, parentComponentDef, node, isRerender)
    ELSE IF node.kids = <<>> THEN [S |-> S, out |-> <<node>>]
    ELSE LET Wrap(body) == [S |-> body.S, out |-> <<[node EXCEPT !.kids = body.out]>>]
         IN Wrap(renderNodes(S, parentComponentDef, node.kids, isRerender))

\* beginComponent(componentsContext, component, key, ownerComponentDef)
beginComponent(S, component, isExisting) ==
    [S EXCEPT !.z = @ \cup {component},
              !.defs = Append(@, [id |-> component, isExisting |-> isExisting])]

\* the renderer of a nested component (globalComponentsContext.P_ unset)
renderer(S, parentComponentDef, tag, isRerender) ==
    LET keySequence == IF parentComponentDef \in DOMAIN S.dks
                          THEN S.dks[parentComponentDef] ELSE KeySequence
        id == resolveComponentKey(KeySequence_nextKey(keySequence, tag.key), parentComponentDef)
        S1 == [S EXCEPT !.dks = Put(@, parentComponentDef, KeySequence_nextLookup(keySequence, tag.key))]
        found == isRerender /\ id \in S.lookup
        mismatch == found /\ S.C[id].l_ # tag.nodeName
        isExisting == found /\ ~mismatch
        Wrap(body) ==
            [S |-> body.S,
             out |-> <<[VComponent(id, tag.key, FALSE, body.out) EXCEPT !.owner = parentComponentDef]>>]
        Render(S4) ==
            IF isExisting /\ ~S4.C[id].s_
                THEN [S |-> [S4 EXCEPT !.z = @ \cup {id}],
                      out |-> <<VComponent(id, UndefKey, TRUE, <<>>)>>]
                ELSE Wrap(renderNodes(beginComponent(emitLifecycleEvent(S4, id, "render"),
                                                     id, isExisting),
                                      id, TemplateOf(tag.nodeName, tag.value), isRerender))
        \* component.F_(input): s_ = checkInputChanged(oldInput, newInput)
        Input(S3) == Render([S3 EXCEPT !.C[id].s_ = (S3.C[id].n_ # tag.value), !.C[id].n_ = tag.value])
        Create(S2) ==
            IF S2.err THEN [S |-> S2, out |-> <<>>]
            ELSE Input(IF isExisting THEN S2
                       ELSE emitLifecycleEvent([S2 EXCEPT !.C = Put(@, id, NewComponent(tag.nodeName))],
                                               id, "create"))
    IN Create(IF mismatch THEN Component_destroy(S1, id) ELSE S1)

\* the id the first top-level component gets from nextComponentId
RootId == "c0"

\* the renderer of the top-level component: a new instance on the initial
\* render, globalComponentsContext.P_ on a re-render
renderRoot(S, nodes, isRerender) ==
    LET S1 == IF isRerender THEN S
              ELSE emitLifecycleEvent([S EXCEPT !.C = Put(@, RootId, NewComponent("App"))],
                                      RootId, "create")
        Wrap(body) == [S |-> body.S, out |-> VComponent(RootId, NullKey, FALSE, body.out)]
    IN Wrap(renderNodes(beginComponent(emitLifecycleEvent(S1, RootId, "render"), RootId, isRerender),
                        RootId, nodes, isRerender))

\* an initComponent that emits mount at every initialization
initComponent_mount(S, componentDef) ==
    emitLifecycleEvent([S EXCEPT !.C[componentDef.id].s_ = FALSE, !.C[componentDef.id].o_ = TRUE,
                                 !.lookup = @ \cup {componentDef.id}],
                       componentDef.id, "mount")

\* initComponent(componentDef, doc)
initComponent(S, componentDef) ==
    LET id == componentDef.id
        S1 == [S EXCEPT !.C[id].s_ = FALSE, !.lookup = @ \cup {id}]
    IN IF S1.C[id].o_
          THEN emitLifecycleEvent(S1, id, "update")
          ELSE emitLifecycleEvent([S1 EXCEPT !.C[id].o_ = TRUE], id, "mount")

\* an initClientRendered that goes from the first definition to the last
RECURSIVE initClientRendered_forward(_, _)
initClientRendered_forward(S, componentDefs) ==
    IF componentDefs = <<>> THEN S
    ELSE initClientRendered_forward(initComponent(S, Head(componentDefs)), Tail(componentDefs))

\* initClientRendered(componentDefs, doc): from the last definition to the first
RECURSIVE initClientRendered(_, _)
initClientRendered(S, componentDefs) ==
    IF componentDefs = <<>> THEN S
    ELSE initClientRendered(initComponent(S, componentDefs[Len(componentDefs)]),
                            SubSeq(componentDefs, 1, Len(componentDefs) - 1))

\* the state a pass starts from
PassState(N, C, lookup) ==
    [N |-> N, C |-> C, lookup |-> lookup, det |-> <<>>, ks |-> [c \in {} |-> KeySequence],
     z |-> {}, defs |-> <<>>, dks |-> [c \in {} |-> KeySequence], phase |-> "render",
     log |-> <<>>, ev |-> <<>>, consumed |-> <<>>, tail |-> <<>>, marks |-> <<>>,
     err |-> FALSE]

\* the mount point: the document fragment of out.aL_, then the body it is appended to
MountPoint == 1

\* template.renderSync(input).appendTo(target):
\* render, morphdom(docFragment, vdomTree) and afterInsert
initialRender(S, nodes) ==
    LET AfterInsert(S1) ==
            IF S1.err THEN S1 ELSE initClientRendered([S1 EXCEPT !.phase = "init"], S1.defs)
        Morph(rendered) ==
            IF rendered.S.err THEN rendered.S
            ELSE morphdom(rendered.S, MountPoint,
                          VNode(DOCUMENT_FRAGMENT_NODE, "", UndefKey, EmptyObject, 0, 0, 0, "",
                                FALSE, "", <<rendered.out>>))
    IN AfterInsert(Morph(renderRoot(S, nodes, FALSE)))

\* Component.L_ of the top-level component: render, morphdom(rootNode,
\* targetNode) and afterInsert
Component_L_(S, nodes) ==
    LET AfterInsert(S1) ==
            IF S1.err THEN S1 ELSE initClientRendered([S1 EXCEPT !.phase = "init"], S1.defs)
        Morph(rendered) ==
            IF rendered.S.err THEN rendered.S
            ELSE morphdom(rendered.S, S.C[RootId].h_, rendered.out)
    IN AfterInsert(Morph(renderRoot(S, nodes, TRUE)))

(***************************************************************************)
(* The variables of a specification that another specification leaves      *)
(* alone keep their idle values.                                           *)
(***************************************************************************)
NoTree == <<>>

NoObservation ==
    [on |-> FALSE, err |-> FALSE, N |-> <<>>, C |-> [c \in {} |-> NewComponent("")], lookup |-> {},
     tree |-> NoTree, mounted |-> FALSE, log |-> <<>>, ev |-> <<>>, z |-> {},
     consumed |-> <<>>, tail |-> <<>>, marks |-> <<>>]

IdleMain ==
    /\ rN = <<>> /\ rC = [c \in {} |-> NewComponent("")] /\ rLookup = {}
    /\ rTree = NoTree /\ rMode = "" /\ rObs = NoObservation

IdleAttrs == aEl = NewEl /\ aLog = <<>> /\ aPrev = NoVNode

IdleVNodes == vN = <<>> /\ vCur = 0

IdleQueue ==
    /\ uComp = <<>> /\ uStack = <<>> /\ uBatches = <<>>
    /\ uUnbatched = <<>> /\ uScheduled = FALSE /\ uTicks = 0 /\ uHistory = <<>>

IdleAsync ==
    oOuts = <<>> /\ oState = <<>> /\ oCalls = <<>>

IdleSubs ==
    zEvents = <<>> /\ zWrappers = <<>> /\ zList = <<>> /\ zDestroyed = FALSE /\ zInvoked = <<>> /\ zOps = 0

IdleDirty ==
    yComp = <<>> /\ yUnbatched = <<>> /\ yBatches = <<>> /\ yScheduled = FALSE /\ yCalls = 0

IdleLoader ==
    lDefs = <<>> /\ lMod = <<>> /\ lRun = <<>> /\ lHist = <<>>

IdleEvents ==
    dLookup = {} /\ dProps = <<>> /\ dLast = <<>> /\ dCount = 0

IdleState ==
    sState = <<>> /\ sComp = <<>> /\ sLast = <<>> /\ sSets = 0

IdleFragment ==
    gKids = <<>> /\ gFrag = <<>> /\ gExpect = <<>> /\ gOps = <<>>

IdleForm ==
    fEl = <<>> /\ fTarget = <<>>

(***************************************************************************)
(* SpecKeys: one KeySequence (one keying scope of one render pass) asked   *)
(* for literal keys in any order.                                          *)
(***************************************************************************)
LiteralKeys == {"a", "b", "a_1"}

IdleKeys == ksLookup = KeySequence /\ ksRequested = <<>> /\ ksResolved = <<>>

InitKeys == IdleKeys /\ IdleAsync /\ IdleSubs /\ IdleDirty /\ IdleLoader /\ IdleEvents /\ IdleState /\ IdleFragment /\ IdleForm /\ IdleAttrs /\ IdleMain /\ IdleVNodes /\ IdleQueue

\* keySequence._i_(key)
NextKey ==
    /\ Len(ksRequested) < MaxRequests
    /\ \E key \in LiteralKeys :
          /\ ksResolved' = Append(ksResolved, KeySequence_nextKey(ksLookup, key))
          /\ ksLookup' = KeySequence_nextLookup(ksLookup, key)
          /\ ksRequested' = Append(ksRequested, key)
    /\ UNCHANGED <<attrVars, mainVars, vnodeVars, queueVars, formVars, fragVars, stateVars, eventVars, loaderVars, dirtyVars, subsVars, asyncVars>>

SpecKeys == InitKeys /\ [][NextKey]_vars

(***************************************************************************)
(* SpecAttrs: one real element, created from a virtual element by aC_ and  *)
(* then patched by aA_ against any virtual element morphEl can pair it     *)
(* with (same key, same tag and therefore the same custom-element flag).   *)
(***************************************************************************)
Absent == [t |-> "absent", v |-> "", ref |-> 0]

MapOf(f) == [n \in {m \in DOMAIN f : f[m] # Absent} |-> f[n]]

\* the attribute maps over the given choice of values per name
MapsOver(choices) ==
    {MapOf(f) : f \in {g \in [DOMAIN choices -> UNION {choices[n] : n \in DOMAIN choices}] :
                          \A n \in DOMAIN g : g[n] \in choices[n]}}

\* class / id with string, false and null values
PlainChoices ==
    [class |-> {Absent, Str("a"), Str("b")},
     id |-> {Absent, Str("x"), FalseV, NullV}]

\* a namespaced attribute, a boolean and an object value
OtherChoices ==
    [class |-> {Absent, Str("a")}]
    @@ (ATTR_XLINK_HREF :> {Absent, Str("#a")})
    @@ ("data-x" :> {Absent, TrueV, Obj("{}", 1)})

AttrFamilies == {MapsOver(PlainChoices), MapsOver(OtherChoices)}

AttrMaps == UNION AttrFamilies

SimpleNames == {"class", "id", "style"}
HoistedAttrsId == 2
HoistedAttrs == [class |-> Str("a")]

\* the identities an attribute map can come with
AttrsIds(m) ==
    {0} \cup (IF m = EmptyObject THEN {EMPTY_OBJECT_ID} ELSE {})
        \cup (IF m = HoistedAttrs THEN {HoistedAttrsId} ELSE {})

AttrFlags(m) ==
    {0, FLAG_CUSTOM_ELEMENT} \cup (IF DOMAIN m \subseteq SimpleNames THEN {FLAG_SIMPLE_ATTRS} ELSE {})

AttrVNodes ==
    {VElement("DIV", m, i, k, f, 0, <<>>) :
        m \in AttrMaps, i \in {0, EMPTY_OBJECT_ID, HoistedAttrsId}, k \in {NullKey, "k"},
        f \in {0, FLAG_SIMPLE_ATTRS, FLAG_CUSTOM_ELEMENT}}

AttrUniverse == {v \in AttrVNodes : v.attrsId \in AttrsIds(v.attrs) /\ v.flags \in AttrFlags(v.attrs)}

\* the objects of a fresh attribute map are new objects
FreshAttrs(v) ==
    IF v.attrsId # 0 THEN v
    ELSE [v EXCEPT !.attrs = [n \in DOMAIN @ |-> IF @[n].t = "object" THEN [@[n] EXCEPT !.ref = 2] ELSE @[n]]]

\* once the pass is over nothing refers to the previous objects
AgeAttrs(v) ==
    [v EXCEPT !.attrs = [n \in DOMAIN @ |-> IF @[n].t = "object" THEN [@[n] EXCEPT !.ref = 1] ELSE @[n]]]

InitAttrs ==
    /\ IdleKeys /\ IdleAsync /\ IdleSubs /\ IdleDirty /\ IdleLoader /\ IdleEvents /\ IdleState /\ IdleFragment /\ IdleForm
    /\ IdleMain
    /\ IdleVNodes
    /\ IdleQueue
    /\ \E vEl \in AttrUniverse : aEl = aC_([el |-> NewEl, ops |-> <<>>], vEl).el
    /\ aLog = <<>>
    /\ aPrev = NoVNode

\* morphAttrs(fromEl, vFromEl, toEl)
AttrPatch ==
    /\ \E toEl \in AttrUniverse :
          /\ toEl.key = aEl.vEl.key
          /\ \E family \in AttrFamilies : toEl.attrs \in family /\ aEl.vEl.attrs \in family
          /\ HasFlag(toEl.flags, FLAG_CUSTOM_ELEMENT) = HasFlag(aEl.vEl.flags, FLAG_CUSTOM_ELEMENT)
          /\ LET r == aA_([el |-> aEl, ops |-> <<>>], aEl.vEl, FreshAttrs(toEl))
             IN /\ aEl' = [r.el EXCEPT !.vEl = AgeAttrs(@)]
                /\ aLog' = r.ops
                /\ aPrev' = aEl.vEl
    /\ UNCHANGED <<keyVars, mainVars, vnodeVars, queueVars, formVars, fragVars, stateVars, eventVars, loaderVars, dirtyVars, subsVars, asyncVars>>

SpecAttrs == InitAttrs /\ [][AttrPatch]_vars

(***************************************************************************)
(* SpecVNode: the child list of virtual nodes (runtime/vdom/VNode).        *)
(*   bv_(finalChildCount)  bG_ = finalChildCount, bH_ = 0, no children     *)
(*   bn_(child)            bH_++, child linked after the last child        *)
(*   bE_()                 the node itself, or the finished parent's bE_() *)
(* The linked list bz_ / bx_ / bI_ of a node is kept as the sequence kids. *)
(* A VElement is built with a declared child count, a VText or VComment    *)
(* with -1 and a node of unknown size with null.  Textareas (bD_) are not  *)
(* built here.                                                             *)
(***************************************************************************)
MaxVNodes == 5
MaxChildCount == 2

\* this.bv_(null /* childCount */)
NullCount == -2

\* this.bv_(-1 /* no children */)
NoChildren == -1

NoParent == 0

\* VNode.bv_(finalChildCount)
bv_(finalChildCount) == [bG_ |-> finalChildCount, bH_ |-> 0, kids |-> <<>>, bw_ |-> NoParent]

\* new VElement / new VText / new VComment: the constructor calls bv_
NewVNode(aD_, finalChildCount) == [bv_(finalChildCount) EXCEPT !.bw_ = NoParent] @@ [aD_ |-> aD_]

\* VNode.bn_(child): the new node gets the next id
bn_(V, node, child) ==
    [Append(V, [child EXCEPT !.bw_ = node]) EXCEPT ![node].bH_ = @ + 1,
                                                   ![node].kids = Append(@, Len(V) + 1)]

\* a finishChild that stops at the parent
bE_parent(V, node) ==
    IF V[node].bH_ = V[node].bG_ /\ V[node].bw_ # NoParent THEN V[node].bw_ ELSE node

\* VNode.bE_ (finishChild)
RECURSIVE bE_(_, _)
bE_(V, node) ==
    IF V[node].bH_ = V[node].bG_ /\ V[node].bw_ # NoParent THEN bE_(V, V[node].bw_) ELSE node

ChildCounts == {NullCount} \cup (0..MaxChildCount)

InitVNode ==
    /\ IdleKeys /\ IdleAsync /\ IdleSubs /\ IdleDirty /\ IdleLoader /\ IdleEvents /\ IdleState /\ IdleFragment /\ IdleForm /\ IdleAttrs /\ IdleMain /\ IdleQueue
    /\ \E childCount \in ChildCounts : vN = <<NewVNode(ELEMENT_NODE, childCount)>>
    /\ vCur = 1

\* VElement.e(tagName, attrs, key, ownerComponent, childCount, flags, props)
VElement_e ==
    /\ Len(vN) < MaxVNodes
    /\ vN[vCur].aD_ = ELEMENT_NODE
    /\ \E childCount \in ChildCounts :
          /\ vN' = bn_(vN, vCur, NewVNode(ELEMENT_NODE, childCount))
          /\ vCur' = IF childCount = 0 THEN bE_(vN', vCur) ELSE Len(vN')
    /\ UNCHANGED <<keyVars, attrVars, mainVars, queueVars, formVars, fragVars, stateVars, eventVars, loaderVars, dirtyVars, subsVars, asyncVars>>

\* Node.t(value)
Node_t ==
    /\ Len(vN) < MaxVNodes
    /\ vN' = bn_(vN, vCur, NewVNode(TEXT_NODE, NoChildren))
    /\ vCur' = bE_(vN', vCur)
    /\ UNCHANGED <<keyVars, attrVars, mainVars, queueVars, formVars, fragVars, stateVars, eventVars, loaderVars, dirtyVars, subsVars, asyncVars>>

\* Node.c(value)
Node_c ==
    /\ Len(vN) < MaxVNodes
    /\ vN' = bn_(vN, vCur, NewVNode(COMMENT_NODE, NoChildren))
    /\ vCur' = bE_(vN', vCur)
    /\ UNCHANGED <<keyVars, attrVars, mainVars, queueVars, formVars, fragVars, stateVars, eventVars, loaderVars, dirtyVars, subsVars, asyncVars>>

NextVNode == VElement_e \/ Node_t \/ Node_c

SpecVNode == InitVNode /\ [][NextVNode]_vars

\* C11: a virtual node built with a declared child count never holds more
\* children than it declared: an append to a node that already has its
\* declared number of children is not linked.
C11_AppendWithinDeclaredCount ==
    \A node \in DOMAIN vN :
        vN[node].bG_ >= 0 => Len(vN[node].kids) <= vN[node].bG_

\* the node and its ancestors
RECURSIVE AncestorsOrSelf(_, _)
AncestorsOrSelf(V, node) ==
    IF node = NoParent THEN {} ELSE {node} \cup AncestorsOrSelf(V, V[node].bw_)

\* an element that has not yet got the children it declared
Open(V, node) == V[node].aD_ = ELEMENT_NODE /\ Len(V[node].kids) < V[node].bG_

\* every element declares a child count, and the chain has not gone on
\* after the first element got the children it declared
ExactCounts ==
    /\ \A node \in DOMAIN vN : vN[node].aD_ = ELEMENT_NODE => vN[node].bG_ >= 0
    /\ Len(vN[1].kids) <= vN[1].bG_

Components == {"A", "B"}
MaxUpdateRequests == 3

QueueState ==
    [comp |-> uComp, stack |-> uStack, batches |-> uBatches, unbatched |-> uUnbatched,
     scheduled |-> uScheduled, ticks |-> uTicks, history |-> uHistory]

QueueBecomes(U) ==
    /\ uComp' = U.comp /\ uStack' = U.stack /\ uBatches' = U.batches
    /\ uUnbatched' = U.unbatched /\ uScheduled' = U.scheduled /\ uTicks' = U.ticks
    /\ uHistory' = U.history

Note(U, e, c) == [U EXCEPT !.history = Append(@, [e |-> e, c |-> c])]

Frame(f, c, i) == [f |-> f, c |-> c, i |-> i, err |-> FALSE]

\* Component.update: nothing when the component is not dirty, or else
\* Component.L_, which opens a batch (batchStack.push) and starts the pass
Component_update(U, c) ==
    IF ~U.comp[c].s_ THEN U
    ELSE Note([U EXCEPT !.batches = Append(@, <<>>), !.stack = Append(@, Frame("L_", c, 0))],
              "start", c)

\* a queueing layer that updates the component at once
queueComponentUpdate_now(U, c) == Component_update(U, c)

\* a scheduleUpdates that asks for a callback each time
scheduleUpdates_each(U) == [U EXCEPT !.scheduled = TRUE, !.ticks = @ + 1]

\* scheduleUpdates()
scheduleUpdates(U) ==
    IF U.scheduled THEN U ELSE [U EXCEPT !.scheduled = TRUE, !.ticks = @ + 1]

\* queueComponentUpdate(component)
queueComponentUpdate(U, c) ==
    IF U.batches # <<>>
        THEN [U EXCEPT !.batches[Len(U.batches)] = Append(@, c)]
        ELSE [scheduleUpdates(U) EXCEPT !.unbatched = Append(@, c)]

\* Component.D_
Component_D_(U, c) ==
    IF U.comp[c].r_ THEN U ELSE queueComponentUpdate([U EXCEPT !.comp[c].r_ = TRUE], c)

\* Component.forceUpdate, or setState with a new value: this.s_ = true; this.D_()
Component_forceUpdate(U, c) ==
    Component_D_(Note([U EXCEPT !.comp[c].s_ = TRUE], "request", c), c)

\* Component.f_
Component_f_(U, c) == [U EXCEPT !.comp[c] = [r_ |-> FALSE, s_ |-> FALSE]]

\* the queue the loop of a frame walks
QueueOf(frame) == IF frame.f = "unbatched" THEN uUnbatched ELSE uBatches[Len(uBatches)]

Requests == Cardinality({k \in 1..Len(uHistory) : uHistory[k].e = "request"})

InLoop ==
    /\ uStack # <<>>
    /\ uStack[Len(uStack)].f \in {"unbatched", "batch"}
    /\ uStack[Len(uStack)].i <= Len(QueueOf(uStack[Len(uStack)]))

LoopDone ==
    /\ uStack # <<>>
    /\ uStack[Len(uStack)].f \in {"unbatched", "batch"}
    /\ uStack[Len(uStack)].i > Len(QueueOf(uStack[Len(uStack)]))

\* queue[i] of the loop on top of the stack
Current == QueueOf(uStack[Len(uStack)])[uStack[Len(uStack)].i]

\* i++ after component.X_() was called
Stepped(c) == Note([QueueState EXCEPT !.stack[Len(uStack)].i = @ + 1], "update", c)

InitQueue ==
    /\ IdleKeys /\ IdleAsync /\ IdleSubs /\ IdleDirty /\ IdleLoader /\ IdleEvents /\ IdleState /\ IdleFragment /\ IdleForm /\ IdleAttrs /\ IdleMain /\ IdleVNodes
    /\ uComp = [c \in Components |-> [r_ |-> FALSE, s_ |-> FALSE]]
    /\ uStack = <<>> /\ uBatches = <<>> /\ uUnbatched = <<>>
    /\ uScheduled = FALSE /\ uTicks = 0 /\ uHistory = <<>>

\* component.forceUpdate(), or setState with a new value, called by user
\* code on an empty stack or inside a pass
forceUpdate ==
    /\ Requests < MaxUpdateRequests
    /\ IF uStack = <<>> THEN TRUE ELSE uStack[Len(uStack)].f = "L_"
    /\ \E c \in Components : QueueBecomes(Component_forceUpdate(QueueState, c))
    /\ UNCHANGED <<keyVars, attrVars, mainVars, vnodeVars, formVars, fragVars, stateVars, eventVars, loaderVars, dirtyVars, subsVars, asyncVars>>

\* a callback given to nextTick runs updateUnbatchedComponents on an empty
\* stack
updateUnbatchedComponents ==
    /\ uStack = <<>> /\ uTicks > 0
    /\ uTicks' = uTicks - 1
    /\ uStack' = IF uUnbatched # <<>> THEN <<Frame("unbatched", "", 1)>> ELSE uStack
    /\ UNCHANGED <<uComp, uBatches, uUnbatched, uScheduled, uHistory>>
    /\ UNCHANGED <<keyVars, attrVars, mainVars, vnodeVars, formVars, fragVars, stateVars, eventVars, loaderVars, dirtyVars, subsVars, asyncVars>>

\* one iteration of the loop of updateComponents(queue): component.X_()
updateComponents ==
    /\ InLoop
    /\ QueueBecomes(Component_update(Stepped(Current), Current))
    /\ UNCHANGED <<keyVars, attrVars, mainVars, vnodeVars, formVars, fragVars, stateVars, eventVars, loaderVars, dirtyVars, subsVars, asyncVars>>

\* one iteration of the loop for a component whose changed state properties
\* all have a handler: Component.update calls processUpdateHandlers, the
\* handlers are user code that can ask for an update, and then
\* component.f_() and no pass
updateComponents_handlers ==
    /\ InLoop
    /\ uComp[Current].s_
    /\ \/ QueueBecomes(Component_f_(Stepped(Current), Current))
       \/ /\ Requests < MaxUpdateRequests
          /\ \E d \in Components :
                QueueBecomes(Component_f_(Component_forceUpdate(Stepped(Current), d), Current))
    /\ UNCHANGED <<keyVars, attrVars, mainVars, vnodeVars, formVars, fragVars, stateVars, eventVars, loaderVars, dirtyVars, subsVars, asyncVars>>

\* the function Component.L_ gave to batchUpdate returns: morphdom and
\* afterInsert are done, the finally block of batchUpdate starts
batchUpdate_finally ==
    /\ uStack # <<>>
    /\ uStack[Len(uStack)].f = "L_"
    /\ QueueBecomes(Note([QueueState EXCEPT !.stack[Len(uStack)] = Frame("batch", @.c, 1)],
                         "return", uStack[Len(uStack)].c))
    /\ UNCHANGED <<keyVars, attrVars, mainVars, vnodeVars, formVars, fragVars, stateVars, eventVars, loaderVars, dirtyVars, subsVars, asyncVars>>

\* the function Component.L_ gave to batchUpdate throws: the finally block
\* of batchUpdate starts all the same
batchUpdate_throw ==
    /\ uStack # <<>>
    /\ uStack[Len(uStack)].f = "L_"
    /\ QueueBecomes(Note([QueueState EXCEPT
                             !.stack[Len(uStack)] = [Frame("batch", @.c, 1) EXCEPT !.err = TRUE]],
                         "throw", uStack[Len(uStack)].c))
    /\ UNCHANGED <<keyVars, attrVars, mainVars, vnodeVars, formVars, fragVars, stateVars, eventVars, loaderVars, dirtyVars, subsVars, asyncVars>>

\* the loop of updateComponents is over: queue.length = 0, and then either
\* batchStack.length-- followed by this.f_() of Component.L_ and of
\* Component.update, or updatesScheduled = false
updateComponents_end ==
    /\ LoopDone
    /\ ~uStack[Len(uStack)].err
    /\ uStack' = SubSeq(uStack, 1, Len(uStack) - 1)
    /\ IF uStack[Len(uStack)].f = "batch"
          THEN /\ uBatches' = SubSeq(uBatches, 1, Len(uBatches) - 1)
               /\ uComp' = [uComp EXCEPT ![uStack[Len(uStack)].c] = [r_ |-> FALSE, s_ |-> FALSE]]
               /\ UNCHANGED <<uUnbatched, uScheduled>>
          ELSE /\ uUnbatched' = <<>>
               /\ uScheduled' = FALSE
               /\ UNCHANGED <<uBatches, uComp>>
    /\ UNCHANGED <<uHistory, uTicks>>
    /\ UNCHANGED <<keyVars, attrVars, mainVars, vnodeVars, formVars, fragVars, stateVars, eventVars, loaderVars, dirtyVars, subsVars, asyncVars>>

\* the finally block of a batchUpdate whose function threw is over:
\* batchStack.length--, and the exception leaves Component.L_ and
\* Component.update before this.f_(), then the loop of every caller before
\* queue.length = 0: each batchUpdate below does batchStack.length-- in its
\* finally block and updateUnbatchedComponents does updatesScheduled = false
updateComponents_throw ==
    /\ LoopDone
    /\ uStack[Len(uStack)].err
    /\ uStack' = <<>>
    /\ uBatches' = <<>>
    /\ uScheduled' = IF uStack[1].f = "unbatched" THEN FALSE ELSE uScheduled
    /\ UNCHANGED <<uComp, uUnbatched, uTicks, uHistory>>
    /\ UNCHANGED <<keyVars, attrVars, mainVars, vnodeVars, formVars, fragVars, stateVars, eventVars, loaderVars, dirtyVars, subsVars, asyncVars>>

NextQueue ==
    forceUpdate \/ updateUnbatchedComponents \/ updateComponents \/ updateComponents_handlers
        \/ batchUpdate_finally \/ batchUpdate_throw \/ updateComponents_end
        \/ updateComponents_throw

SpecQueue == InitQueue /\ [][NextQueue]_vars

\* the same with the event loop running every callback and every call on
\* the stack going on
SpecQueueLive ==
    /\ InitQueue /\ [][NextQueue]_vars
    /\ WF_vars(updateUnbatchedComponents)
    /\ WF_vars(updateComponents \/ updateComponents_handlers)
    /\ WF_vars(batchUpdate_finally \/ batchUpdate_throw)
    /\ WF_vars(updateComponents_end)
    /\ WF_vars(updateComponents_throw)

\* the passes started and not yet over after the first k events
InFlight(k) ==
    Cardinality({j \in 1..k : uHistory[j].e = "start"})
        - Cardinality({j \in 1..k : uHistory[j].e \in {"return", "throw"}})

\* C14: at most one pass is in flight at any time: an update requested
\* through Component.D_ while a pass is running starts only after that pass
\* has returned.
C14_OnePassInFlight ==
    \A k \in 1..Len(uHistory) :
        /\ InFlight(k) \in {0, 1}
        /\ uHistory[k].e = "start" => InFlight(k - 1) = 0

\* an update was requested while a pass was running and has started since
C14_Witness ==
    \E k, l \in 1..Len(uHistory) :
        /\ k < l
        /\ uHistory[k].e = "request" /\ InFlight(k) = 1
        /\ uHistory[l].e = "start" /\ uHistory[l].c = uHistory[k].c

\* updateUnbatchedComponents is on the stack
FlushRunning == uStack # <<>> /\ uStack[1].f = "unbatched"

\* the frames that own a batch: the j-th of them owns batchStack[j]
BatchFrames == SelectSeq(uStack, LAMBDA frame : frame.f # "unbatched")

\* the component is in a queue at a place the loop of that queue has not
\* reached
Waiting(c) ==
    \/ \E k \in 1..Len(uUnbatched) :
          /\ uUnbatched[k] = c
          /\ k >= (IF FlushRunning THEN uStack[1].i ELSE 1)
    \/ \E j \in 1..Len(uBatches) :
          \E k \in 1..Len(uBatches[j]) :
             /\ uBatches[j][k] = c
             /\ j <= Len(BatchFrames)
             /\ k >= (IF BatchFrames[j].f = "L_" THEN 1 ELSE BatchFrames[j].i)

\* the calls of update() of the component so far
Updates(c) == Cardinality({k \in 1..Len(uHistory) : uHistory[k].e = "update" /\ uHistory[k].c = c})

Thrown == \E k \in 1..Len(uHistory) : uHistory[k].e = "throw"

\* C24: every component put into a queue by queueComponentUpdate has its
\* update() called later on: a component in the queue of a batch by the
\* finally block of that batchUpdate, a component in the unbatched queue by
\* the flush scheduled with nextTick, and a component added to a queue that
\* is being walked by that same walk.
C24_EnqueuedEventuallyUpdated ==
    \A c \in Components, n \in 0..(2 * MaxUpdateRequests) :
        (Waiting(c) /\ Updates(c) = n) ~> (Updates(c) > n)

\* the same as long as no pass has thrown
C24_UpdatedUnlessThrown ==
    \A c \in Components, n \in 0..(2 * MaxUpdateRequests) :
        (Waiting(c) /\ Updates(c) = n) ~> (Updates(c) > n \/ Thrown)

\* C25: at most one flush of the unbatched queue is scheduled at a time;
\* whenever the unbatched queue is not empty and no flush is running, a
\* flush is scheduled; updatesScheduled is false again once the flush is
\* over.
C25_FlushScheduled ==
    /\ uTicks <= 1
    /\ (uUnbatched # <<>> /\ ~FlushRunning) => (uScheduled /\ uTicks = 1)
    /\ (~FlushRunning /\ uTicks = 0) => ~uScheduled

\* the first and the last part of it
C25_OneFlushAndReset ==
    /\ uTicks <= 1
    /\ (~FlushRunning /\ uTicks = 0) => ~uScheduled
    /\ uScheduled <=> (uTicks = 1 \/ FlushRunning)

\* the second part as long as no pass has thrown
C25_ScheduledUnlessThrown ==
    (uUnbatched # <<>> /\ ~FlushRunning /\ ~Thrown) => (uScheduled /\ uTicks = 1)

(***************************************************************************)
(* SpecForm: morphEl on one INPUT, OPTION or TEXTAREA element             *)
(* (morphdom/specialElHandlers).  The real element has, beside its         *)
(* attributes, the live properties of a form control:                      *)
(*   disabled  reflects the attribute: true iff the attribute is there     *)
(*   checked, selected                                                     *)
(*             follow the attribute until the property is assigned or the  *)
(*             user toggles the control (el.dirty), then keep their value  *)
(*   value     of an INPUT follows the attribute until it is assigned or   *)
(*             edited; of a TEXTAREA it is assigned when the element is    *)
(*             made (VElement.aC_)                                         *)
(* Inputs are text inputs (no type attribute); a TEXTAREA virtual element  *)
(* carries its text (bC_) in the field value.                              *)
(***************************************************************************)
FormTags == {"INPUT", "OPTION", "TEXTAREA"}

NewFormEl(nodeName) ==
    [attrs |-> EmptyObject, props |-> EmptyObject, vEl |-> NoVNode, nodeName |-> nodeName,
     checked |-> FALSE, selected |-> FALSE, value |-> "", dirty |-> {}]

\* el.checked, el.selected, el.disabled
BoolProp(el, name) ==
    IF name = "disabled" THEN "disabled" \in DOMAIN el.attrs
    ELSE IF name \in el.dirty THEN el[name]
    ELSE name \in DOMAIN el.attrs

\* el.value
el_value(el) ==
    IF "value" \in el.dirty THEN el.value
    ELSE IF "value" \in DOMAIN el.attrs THEN el.attrs["value"]
    ELSE ""

\* el[name] = val for checked, selected, disabled
setBoolProp(r, name, val) ==
    IF name = "disabled"
        THEN [el |-> [r.el EXCEPT !.attrs = IF val THEN Put(@, "disabled", "") ELSE Delete(@, "disabled")],
              ops |-> Append(r.ops, DomOp("setProperty", name, ToString(val)))]
        ELSE [el |-> [r.el EXCEPT ![name] = val, !.dirty = @ \cup {name}],
              ops |-> Append(r.ops, DomOp("setProperty", name, ToString(val)))]

\* el.value = val
setValue(r, val) ==
    [el |-> [r.el EXCEPT !.value = val, !.dirty = @ \cup {"value"}],
     ops |-> Append(r.ops, DomOp("setProperty", "value", val))]

\* the getters checked, selected, disabled of a VElement, and aK_(name)
aK_(vEl, name) == Get(vEl.attrs, name) # FalseV /\ ~IsNullish(Get(vEl.attrs, name))

\* the getter aJ_ of a VElement: bC_, or else the value attribute
aJ_(vEl) ==
    IF vEl.value # "" THEN vEl.value
    ELSE IF ~IsNullish(Get(vEl.attrs, "value")) THEN ToJSString(Get(vEl.attrs, "value"))
    ELSE ""

syncBooleanAttrProp(r, toEl, name) ==
    IF BoolProp(r.el, name) # aK_(toEl, name)
        THEN LET Attr(r1) == IF BoolProp(r1.el, name)
                                THEN setAttribute(r1, NoNS, name, "")
                                ELSE removeAttribute(r1, NoNS, name)
             IN Attr(setBoolProp(r, name, aK_(toEl, name)))
        ELSE r

\* fromEl.value != toEl.aJ_ : fromEl.value = toEl.aJ_
syncValue(r, toEl) == IF el_value(r.el) # aJ_(toEl) THEN setValue(r, aJ_(toEl)) ELSE r

\* specialElHandlers[nodeName](fromEl, toEl); the elements have no children
specialElHandlers(r, nodeName, toEl) ==
    IF nodeName = "OPTION" THEN syncBooleanAttrProp(r, toEl, "selected")
    ELSE IF nodeName = "INPUT"
        THEN LET Value(r2) ==
                     LET r3 == syncValue(r2, toEl)
                     IN IF "value" \in DOMAIN r3.el.attrs /\ ~aK_(toEl, "value")
                           THEN removeAttribute(r3, NoNS, "value")
                           ELSE r3
             IN Value(syncBooleanAttrProp(syncBooleanAttrProp(r, toEl, "checked"), toEl, "disabled"))
    ELSE IF nodeName = "TEXTAREA" THEN syncValue(r, toEl)
    ELSE r

\* morphEl of an element without children
morphFormEl(r, vFromEl, toEl) ==
    IF toEl.constId # 0 /\ vFromEl.constId = toEl.constId THEN r
    ELSE specialElHandlers(aA_(r, vFromEl, toEl), toEl.nodeName, toEl)

\* VElement.aC_ of a form element: FLAG_IS_TEXTAREA assigns el.value
createFormEl(vEl) ==
    LET made == aC_([el |-> NewFormEl(vEl.nodeName), ops |-> <<>>], vEl)
    IN IF vEl.nodeName = "TEXTAREA" THEN setValue(made, aJ_(vEl)).el ELSE made.el

FormAttrNames(nodeName) ==
    IF nodeName = "INPUT" THEN {"checked", "disabled", "value"}
    ELSE IF nodeName = "OPTION" THEN {"selected", "disabled"}
    ELSE {"disabled"}

FormAttrValues(name) ==
    IF name = "value" THEN {Str("a"), Str("b")}
    ELSE IF name = "disabled" THEN {TrueV}
    ELSE {TrueV, FalseV}

FormAttrMaps(nodeName) ==
    UNION {{m \in [D -> {Str("a"), Str("b"), TrueV, FalseV}] : \A n \in D : m[n] \in FormAttrValues(n)} :
              D \in SUBSET FormAttrNames(nodeName)}

FormUniverse ==
    {[VElement(nodeName, m, 0, k, 0, 0, <<>>) EXCEPT !.value = text] :
        nodeName \in FormTags, m \in UNION {FormAttrMaps(n) : n \in FormTags},
        k \in {NullKey, "k"}, text \in {"", "a", "b"}}

FormVNodes ==
    {v \in FormUniverse :
        /\ v.attrs \in FormAttrMaps(v.nodeName)
        /\ v.value # "" => v.nodeName = "TEXTAREA"}

\* the live properties a user can change, and the values they can take
UserValues == {"a", "u"}

InitForm ==
    /\ IdleKeys /\ IdleAsync /\ IdleSubs /\ IdleDirty /\ IdleLoader /\ IdleEvents /\ IdleState /\ IdleFragment /\ IdleAttrs /\ IdleMain /\ IdleVNodes /\ IdleQueue
    /\ \E vEl \in FormVNodes : fEl = createFormEl(vEl)
    /\ fTarget = NoVNode

\* the user toggles a checkbox or an option, or types into the control
UserEdit ==
    /\ \/ /\ fEl.nodeName = "INPUT"
          /\ \E val \in BOOLEAN : fEl' = setBoolProp([el |-> fEl, ops |-> <<>>], "checked", val).el
       \/ /\ fEl.nodeName = "OPTION"
          /\ \E val \in BOOLEAN : fEl' = setBoolProp([el |-> fEl, ops |-> <<>>], "selected", val).el
       \/ /\ fEl.nodeName \in {"INPUT", "TEXTAREA"}
          /\ \E val \in UserValues : fEl' = setValue([el |-> fEl, ops |-> <<>>], val).el
    /\ fTarget' = NoVNode
    /\ UNCHANGED <<keyVars, attrVars, mainVars, vnodeVars, queueVars, fragVars, stateVars, eventVars, loaderVars, dirtyVars, subsVars, asyncVars>>

\* morphEl(fromEl, vFromEl, toEl, ...) with a target of the same tag and key
FormPatch ==
    /\ \E toEl \in FormVNodes :
          /\ toEl.nodeName = fEl.nodeName
          /\ toEl.key = fEl.vEl.key
          /\ fEl' = morphFormEl([el |-> fEl, ops |-> <<>>], fEl.vEl, toEl).el
          /\ fTarget' = toEl
    /\ UNCHANGED <<keyVars, attrVars, mainVars, vnodeVars, queueVars, fragVars, stateVars, eventVars, loaderVars, dirtyVars, subsVars, asyncVars>>

NextForm == UserEdit \/ FormPatch

SpecForm == InitForm /\ [][NextForm]_vars

\* the part of C22 about the properties the handlers assign: checked,
\* disabled and value of an INPUT, selected of an OPTION, value of a TEXTAREA
C22_HandledPropertiesFollowTarget ==
    fTarget # NoVNode =>
        /\ fEl.nodeName = "INPUT" =>
              /\ BoolProp(fEl, "checked") = aK_(fTarget, "checked")
              /\ BoolProp(fEl, "disabled") = aK_(fTarget, "disabled")
              /\ el_value(fEl) = aJ_(fTarget)
        /\ fEl.nodeName = "OPTION" => BoolProp(fEl, "selected") = aK_(fTarget, "selected")
        /\ fEl.nodeName = "TEXTAREA" => el_value(fEl) = aJ_(fTarget)

\* C22: after an INPUT, TEXTAREA or OPTION element is patched, its live
\* properties checked, disabled, selected and value are those of the target
\* virtual element, whatever they were before the patch.
C22_LivePropertiesFollowTarget ==
    /\ C22_HandledPropertiesFollowTarget
    /\ fTarget # NoVNode => BoolProp(fEl, "disabled") = aK_(fTarget, "disabled")

(***************************************************************************)
(* SpecFragment: morphdom/fragment on a small DOM.  gKids gives the child  *)
(* list of the containers P and Q, of the fragment's detachedContainer D   *)
(* and of Free, which holds the nodes that are in no tree yet (the two     *)
(* marker text nodes before createFragmentNode, and new nodes).            *)
(* The operations get the arguments their callers give them:               *)
(*   createFragmentNode()                         (VFragment, 3143)        *)
(*   createFragmentNode(startNode, nextNode, parentNode) with nextNode     *)
(*       null or a sibling at or after startNode  (3302, 4340, 4342)       *)
(*   beginFragmentNode(startNode, parentNode), then insertBefore calls of  *)
(*       morphChildren on the fragment, then at_(nextNode) once (3202,     *)
(*       3491-3494)                                                        *)
(*   insertBefore(newChildNode, referenceNode) with null or a child        *)
(*   insertInto(newParentNode, referenceNode) with null or a child of the  *)
(*       new parent that is not a node of the fragment                     *)
(*   remove()                                                              *)
(***************************************************************************)
MaxFragmentOps == 5

StartMarker == "start"
EndMarker == "end"
NoRef == ""
Free == "Free"
DetachedContainer == "D"
Parents == {"P", "Q"}

Has(seq, x) == \E i \in 1..Len(seq) : seq[i] = x

\* node.parentNode
ParentIn(K, node) ==
    IF \E c \in DOMAIN K : c # Free /\ Has(K[c], node)
        THEN CHOOSE c \in DOMAIN K : c # Free /\ Has(K[c], node)
        ELSE NoRef

\* parentNode.insertBefore(node, referenceNode) of the DOM: the node leaves
\* the list it is in
helper_insertBefore(K, node, referenceNode, parentNode) ==
    LET K1 == [c \in DOMAIN K |-> Without(K[c], node)]
    IN [K1 EXCEPT ![parentNode] = IF referenceNode = NoRef THEN Append(@, node)
                                  ELSE InsertAt(@, IndexOf(@, referenceNode), node)]

\* get nodes(): from the start marker to the end marker
fragmentPrototype_nodes(K) ==
    LET p == ParentIn(K, StartMarker)
    IN SubSeq(K[p], IndexOf(K[p], StartMarker), IndexOf(K[p], EndMarker))

\* an insertInto that moves the two markers only
fragmentPrototype_insertInto_markers(K, newParentNode, referenceNode) ==
    helper_insertBefore(helper_insertBefore(K, StartMarker, referenceNode, newParentNode),
                     EndMarker, referenceNode, newParentNode)

\* this.nodes.forEach(node => insertBefore(node, referenceNode, newParentNode))
RECURSIVE insertEach(_, _, _, _)
insertEach(K, nodes, referenceNode, parentNode) ==
    IF nodes = <<>> THEN K
    ELSE insertEach(helper_insertBefore(K, Head(nodes), referenceNode, parentNode),
                    Tail(nodes), referenceNode, parentNode)

fragmentPrototype_insertInto(K, newParentNode, referenceNode) ==
    insertEach(K, fragmentPrototype_nodes(K), referenceNode, newParentNode)

\* this.nodes.forEach(node => this.detachedContainer.appendChild(node))
fragmentPrototype_remove(K) ==
    insertEach(K, fragmentPrototype_nodes(K), NoRef, DetachedContainer)

\* insertBefore(newChildNode, referenceNode == null ? this.endNode : referenceNode,
\*              this.startNode.parentNode)
fragmentPrototype_insertBefore(K, newChildNode, referenceNode) ==
    helper_insertBefore(K, newChildNode,
                     IF referenceNode = NoRef THEN EndMarker ELSE referenceNode,
                     ParentIn(K, StartMarker))

\* createFragmentNode(startNode, nextNode, parentNode)
createFragmentNodeAt(K, startNode, nextNode, parentNode) ==
    LET parent == IF parentNode # NoRef THEN parentNode
                  ELSE IF startNode # NoRef /\ ParentIn(K, startNode) # NoRef
                     THEN ParentIn(K, startNode)
                  ELSE DetachedContainer
    IN helper_insertBefore(helper_insertBefore(K, StartMarker, startNode, parent),
                        EndMarker, nextNode, parent)

\* the siblings strictly between the two markers
Between(K) ==
    LET nodes == fragmentPrototype_nodes(K)
    IN SubSeq(nodes, 2, Len(nodes) - 1)

NoFragment == [made |-> FALSE, at_ |-> FALSE, parentNode |-> NoRef]

InitFragment ==
    /\ IdleKeys /\ IdleAsync /\ IdleSubs /\ IdleDirty /\ IdleLoader /\ IdleEvents /\ IdleState /\ IdleForm /\ IdleAttrs /\ IdleMain /\ IdleVNodes /\ IdleQueue
    /\ \E p \in {<<"a", "b", "c">>, <<"a", "b">>, <<"a">>} :
          gKids = [c \in Parents \cup {DetachedContainer, Free} |->
                      IF c = "P" THEN p
                      ELSE IF c = "Q" THEN SubSeq(<<"a", "b", "c">>, Len(p) + 1, 3)
                      ELSE IF c = Free THEN <<"x", "y", StartMarker, EndMarker>>
                      ELSE <<>>]
    /\ gFrag = NoFragment
    /\ gExpect = <<>>
    /\ gOps = <<>>

FragmentStep(op) == Len(gOps) < MaxFragmentOps /\ gOps' = Append(gOps, op)

\* the children of a parent from startNode on, up to nextNode
Span(K, parent, startNode, nextNode) ==
    LET kids == K[parent]
        from == IF startNode = NoRef THEN Len(kids) + 1 ELSE IndexOf(kids, startNode)
        to == IF nextNode = NoRef THEN Len(kids) ELSE IndexOf(kids, nextNode) - 1
    IN SubSeq(kids, from, to)

\* createFragmentNode() and createFragmentNode(startNode, nextNode, parentNode)
CreateFragment ==
    /\ ~gFrag.made
    /\ FragmentStep("create")
    /\ \/ /\ gKids' = createFragmentNodeAt(gKids, NoRef, NoRef, NoRef)
          /\ gExpect' = <<>>
       \/ \E parent \in Parents :
             /\ gKids' = createFragmentNodeAt(gKids, NoRef, NoRef, parent)
             /\ gExpect' = <<>>
       \/ \E parent \in Parents, withParent \in BOOLEAN :
             \E i \in 1..Len(gKids[parent]) :
                \E j \in i..(Len(gKids[parent]) + 1) :
                   LET startNode == gKids[parent][i]
                       nextNode == IF j > Len(gKids[parent]) THEN NoRef ELSE gKids[parent][j]
                   IN /\ gKids' = createFragmentNodeAt(gKids, startNode, nextNode,
                                                     IF withParent THEN parent ELSE NoRef)
                      /\ gExpect' = Span(gKids, parent, startNode, nextNode)
    /\ gFrag' = [made |-> TRUE, at_ |-> FALSE, parentNode |-> NoRef]
    /\ UNCHANGED <<keyVars, attrVars, mainVars, vnodeVars, queueVars, formVars, stateVars, eventVars, loaderVars, dirtyVars, subsVars, asyncVars>>

\* beginFragmentNode(startNode, parentNode)
BeginFragment ==
    /\ ~gFrag.made
    /\ FragmentStep("begin")
    /\ \E parent \in Parents :
          \E i \in 1..(Len(gKids[parent]) + 1) :
             LET startNode == IF i > Len(gKids[parent]) THEN NoRef ELSE gKids[parent][i]
             IN /\ gKids' = createFragmentNodeAt(gKids, startNode, NoRef, parent)
                /\ gExpect' = Span(gKids, parent, startNode, NoRef)
                /\ gFrag' = [made |-> TRUE, at_ |-> TRUE, parentNode |-> parent]
    /\ UNCHANGED <<keyVars, attrVars, mainVars, vnodeVars, queueVars, formVars, stateVars, eventVars, loaderVars, dirtyVars, subsVars, asyncVars>>

\* fragment.at_(nextNode): insertBefore(fragment.endNode, nextNode, parentNode)
FragmentAt ==
    /\ gFrag.made /\ gFrag.at_
    /\ FragmentStep("at_")
    /\ \E i \in 1..(Len(gExpect) + 1) :
          LET nextNode == IF i > Len(gExpect) THEN NoRef ELSE gExpect[i]
          IN /\ gKids' = helper_insertBefore(gKids, EndMarker, nextNode, gFrag.parentNode)
             /\ gExpect' = SubSeq(gExpect, 1, i - 1)
    /\ gFrag' = [gFrag EXCEPT !.at_ = FALSE]
    /\ UNCHANGED <<keyVars, attrVars, mainVars, vnodeVars, queueVars, formVars, stateVars, eventVars, loaderVars, dirtyVars, subsVars, asyncVars>>

\* fragment.insertBefore(newChildNode, referenceNode): a new node, or a
\* node of another place, put before a child or at the end
FragmentInsertBefore ==
    /\ gFrag.made
    /\ FragmentStep("insertBefore")
    /\ \E newChildNode \in {"a", "b", "c", "x", "y"} :
          /\ ~Has(gExpect, newChildNode)
          /\ \E i \in 1..(Len(gExpect) + 1) :
                LET referenceNode == IF i > Len(gExpect) THEN NoRef ELSE gExpect[i]
                IN /\ gKids' = fragmentPrototype_insertBefore(gKids, newChildNode, referenceNode)
                   /\ gExpect' = InsertAt(gExpect, i, newChildNode)
    /\ UNCHANGED gFrag
    /\ UNCHANGED <<keyVars, attrVars, mainVars, vnodeVars, queueVars, formVars, stateVars, eventVars, loaderVars, dirtyVars, subsVars, asyncVars>>

\* fragment.insertInto(newParentNode, referenceNode)
FragmentInsertInto ==
    /\ gFrag.made /\ ~gFrag.at_
    /\ FragmentStep("insertInto")
    /\ \E newParentNode \in Parents :
          \E referenceNode \in {NoRef} \cup {n \in {"a", "b", "c", "x", "y"} :
                                               Has(gKids[newParentNode], n) /\ ~Has(gExpect, n)} :
             gKids' = fragmentPrototype_insertInto(gKids, newParentNode, referenceNode)
    /\ UNCHANGED <<gFrag, gExpect>>
    /\ UNCHANGED <<keyVars, attrVars, mainVars, vnodeVars, queueVars, formVars, stateVars, eventVars, loaderVars, dirtyVars, subsVars, asyncVars>>

\* fragment.remove()
FragmentRemove ==
    /\ gFrag.made /\ ~gFrag.at_
    /\ FragmentStep("remove")
    /\ gKids' = fragmentPrototype_remove(gKids)
    /\ UNCHANGED <<gFrag, gExpect>>
    /\ UNCHANGED <<keyVars, attrVars, mainVars, vnodeVars, queueVars, formVars, stateVars, eventVars, loaderVars, dirtyVars, subsVars, asyncVars>>

NextFragment ==
    CreateFragment \/ BeginFragment \/ FragmentAt \/ FragmentInsertBefore
        \/ FragmentInsertInto \/ FragmentRemove

SpecFragment == InitFragment /\ [][NextFragment]_vars

\* C23: after any sequence of fragment operations the start marker and
\* the end marker have the same parent, the start marker precedes the end
\* marker, and the siblings strictly between the two markers are the
\* fragment's children in the order the operations gave them.
C23_FragmentMarkers ==
    gFrag.made =>
        LET p == ParentIn(gKids, StartMarker)
        IN /\ p # NoRef
           /\ Has(gKids[p], EndMarker)
           /\ IndexOf(gKids[p], StartMarker) < IndexOf(gKids[p], EndMarker)
           /\ Between(gKids) = gExpect

\* a fragment with two children or more that was given a child before
\* another child, removed, and put into the parent Q
C23_Witness ==
    /\ gFrag.made
    /\ Has(gOps, "insertBefore") /\ Has(gOps, "remove")
    /\ gOps[Len(gOps)] = "insertInto"
    /\ ParentIn(gKids, StartMarker) = "Q"
    /\ Len(gExpect) >= 2
    /\ Between(gKids) = gExpect

(***************************************************************************)
(* SpecState: components/State, processUpdateHandlers and Component.update *)
(* of one live component.  The state has the properties of Props; V_, K_   *)
(* and J_ are functions on Props, with NoValue for a property the object *)
(* does not have, and changed lists the own properties of J_ in the order  *)
(* they were added (the order of for-in).  The component has an update_    *)
(* handler for the properties of sComp.handlers, and its shouldUpdate      *)
(* returns sComp.shouldUpdate (true unless the component overrides it).    *)
(* Handlers, render functions and listeners are not followed any further.  *)
(***************************************************************************)
MaxSetStates == 3

Props == {"p", "q"}
NoValue == "undefined"
StateValues == {NoValue, "x", "y"}

\* State.f_
State_f_(S) ==
    [S EXCEPT !.s_ = FALSE, !.K_ = [p \in Props |-> NoValue],
              !.J_ = [p \in Props |-> NoValue], !.changed = <<>>]

\* State.E_(name, value, shouldEnsure, forceDirty)
State_E_(S, name, value, forceDirty) ==
    IF ~forceDirty /\ S.V_[name] = value THEN S
    ELSE LET S1 == IF ~S.s_ THEN [S EXCEPT !.s_ = TRUE, !.K_ = S.V_] ELSE S
         IN [S1 EXCEPT !.J_[name] = value,
                       !.changed = IF Has(@, name) THEN @ ELSE Append(@, name),
                       !.V_[name] = value]

HandlerCall(S, name) == [name |-> name, newValue |-> S.J_[name], oldValue |-> S.K_[name]]

\* a processUpdateHandlers that calls the handlers it has found when one is
\* missing
processUpdateHandlers_found(handlers, S) ==
    [handled |-> \A k \in 1..Len(S.changed) : S.changed[k] \in handlers,
     calls |-> [k \in 1..Len(SelectSeq(S.changed, LAMBDA name : name \in handlers)) |->
                  HandlerCall(S, SelectSeq(S.changed, LAMBDA name : name \in handlers)[k])]]

\* processUpdateHandlers(component, stateChanges, oldState): whether it
\* returned true, and the handlers it called with their arguments
processUpdateHandlers(handlers, S) ==
    IF \E k \in 1..Len(S.changed) : S.changed[k] \notin handlers
        THEN [handled |-> FALSE, calls |-> <<>>]
        ELSE [handled |-> TRUE,
              calls |-> [k \in 1..Len(S.changed) |-> HandlerCall(S, S.changed[k])]]

NoUpdate == [ran |-> FALSE]

InitState ==
    /\ IdleKeys /\ IdleAsync /\ IdleSubs /\ IdleDirty /\ IdleLoader /\ IdleEvents /\ IdleFragment /\ IdleForm /\ IdleAttrs /\ IdleMain /\ IdleVNodes /\ IdleQueue
    /\ \E V_ \in [Props -> StateValues] :
          sState = State_f_([V_ |-> V_, s_ |-> FALSE, K_ |-> <<>>, J_ |-> <<>>, changed |-> <<>>])
    /\ \E handlers \in SUBSET Props, shouldUpdate \in BOOLEAN :
          sComp = [s_ |-> FALSE, handlers |-> handlers, shouldUpdate |-> shouldUpdate]
    /\ sLast = NoUpdate
    /\ sSets = 0

\* component.setState(name, value) and component.setStateDirty(name, value)
setState ==
    /\ sSets < MaxSetStates
    /\ sSets' = sSets + 1
    /\ \E name \in Props, value \in StateValues, forceDirty \in BOOLEAN :
          sState' = State_E_(sState, name, value, forceDirty)
    /\ UNCHANGED <<sComp, sLast>>
    /\ UNCHANGED <<keyVars, attrVars, mainVars, vnodeVars, queueVars, formVars, fragVars, eventVars, loaderVars, dirtyVars, subsVars, asyncVars>>

\* component.forceUpdate(), or a new input: this.s_ = true
setDirty ==
    /\ sSets < MaxSetStates
    /\ sSets' = sSets + 1
    /\ sComp' = [sComp EXCEPT !.s_ = TRUE]
    /\ UNCHANGED <<sState, sLast>>
    /\ UNCHANGED <<keyVars, attrVars, mainVars, vnodeVars, queueVars, formVars, fragVars, eventVars, loaderVars, dirtyVars, subsVars, asyncVars>>

\* Component.update()
Component_update_state ==
    /\ sComp.s_ \/ sState.s_
    /\ LET tried == ~sComp.s_ /\ sState.s_
           r == IF tried THEN processUpdateHandlers(sComp.handlers, sState)
                ELSE [handled |-> FALSE, calls |-> <<>>]
           \* this.I_ after processUpdateHandlers
           dirty == ~(tried /\ r.handled)
       IN sLast' = [ran |-> TRUE, inputDirty |-> sComp.s_, state |-> sState,
                    calls |-> r.calls,
                    event |-> r.calls # <<>>,
                    rendered |-> dirty /\ sComp.shouldUpdate]
    /\ sState' = State_f_(sState)
    /\ sComp' = [sComp EXCEPT !.s_ = FALSE]
    /\ UNCHANGED sSets
    /\ UNCHANGED <<keyVars, attrVars, mainVars, vnodeVars, queueVars, formVars, fragVars, eventVars, loaderVars, dirtyVars, subsVars, asyncVars>>

NextState == setState \/ setDirty \/ Component_update_state

SpecState == InitState /\ [][NextState]_vars

\* the last update() found the input clean and the state dirty
StateUpdate == sLast.ran /\ ~sLast.inputDirty /\ sLast.state.s_

ChangedProps == {sLast.state.changed[k] : k \in 1..Len(sLast.state.changed)}

\* each changed property's handler was called exactly once, with the new
\* and the old value; the update event was emitted; no re-render
HandledByHandlers ==
    /\ \A name \in ChangedProps :
          Cardinality({k \in 1..Len(sLast.calls) : sLast.calls[k].name = name}) = 1
    /\ \A k \in 1..Len(sLast.calls) :
          /\ sLast.calls[k].name \in ChangedProps
          /\ sLast.calls[k].newValue = sLast.state.V_[sLast.calls[k].name]
          /\ sLast.calls[k].oldValue = sLast.state.K_[sLast.calls[k].name]
    /\ sLast.event
    /\ ~sLast.rendered

\* C26 as stated: with a handler for every changed property the handlers do
\* the update; with a handler missing no handler is called and the
\* component re-renders.
C26_HandlersOrRerender ==
    StateUpdate =>
        IF ChangedProps \subseteq sComp.handlers
            THEN HandledByHandlers
            ELSE sLast.calls = <<>> /\ sLast.rendered

\* C26: on update() of a live component whose input is not dirty and whose
\* state is dirty: if every changed state property has an update_ handler,
\* each handler is called exactly once with the new and the old value, the
\* update event is emitted and there is no re-render; if a changed property
\* has no handler, no handler is called and the component re-renders
\* unless its shouldUpdate returns false.
C26_HandlersOrRerenderUnlessDeclined ==
    StateUpdate =>
        IF ChangedProps \subseteq sComp.handlers
            THEN HandledByHandlers
            ELSE sLast.calls = <<>> /\ (sLast.rendered <=> sComp.shouldUpdate)

\* both properties changed, one of them back to its old value, and both
\* handlers were called
C26_Witness ==
    /\ StateUpdate
    /\ ChangedProps = Props
    /\ sComp.handlers = Props
    /\ \E name \in Props : sLast.state.V_[name] # sLast.state.K_[name]
    /\ Len(sLast.calls) = Cardinality(Props)

\* a property without a handler changed and the component was rendered again
C26_WitnessRerender ==
    /\ StateUpdate
    /\ ~(ChangedProps \subseteq sComp.handlers)
    /\ ChangedProps \cap sComp.handlers # {}
    /\ sLast.rendered

(***************************************************************************)
(* SpecEvents: components/event-delegation.  A click is dispatched at one  *)
(* node of a chain of elements EventNodes (a node, then its parent, ...);  *)
(* the listener that addDelegatedEventHandlerToDoc puts on the body walks  *)
(* from event.target to the ancestors and calls delegateEvent for every    *)
(* node whose virtual properties have an onclick entry                     *)
(*   [method, component, isOnce]                                           *)
(* where method is the name of a method or a function (TargetFunction).    *)
(* Every component has the methods of Methods.  A handler is user code; it *)
(* can call event.stopPropagation().                                       *)
(***************************************************************************)
MaxDispatches == 2

EventNodes == <<"button", "form">>
EventComponents == {"c0", "c0-k"}
Methods == {"handleClick"}
TargetFunction == "function"
TargetMethods == Methods \cup {"handleTap", TargetFunction}
NoEvent == [method |-> "", component |-> "", isOnce |-> FALSE]

EventInfos ==
    {NoEvent} \cup [method : TargetMethods, component : EventComponents, isOnce : BOOLEAN]

\* a delegateEvent that takes a missing component for a missing method
delegateEvent_strict(lookup, target) ==
    IF target.component \in lookup /\ (target.method = TargetFunction \/ target.method \in Methods)
        THEN [outcome |-> "return", invoked |-> TRUE]
        ELSE [outcome |-> "throw", invoked |-> FALSE]

\* delegateEvent(node, eventName, target, event): how the call ends and
\* whether it called the handler
delegateEvent(lookup, target) ==
    IF target.component \notin lookup THEN [outcome |-> "return", invoked |-> FALSE]
    ELSE IF ~(target.method = TargetFunction \/ target.method \in Methods)
        THEN [outcome |-> "throw", invoked |-> FALSE]
    ELSE [outcome |-> "return", invoked |-> TRUE]

\* if (isOnce) delete virtualProps[eventName]
AfterDelegate(props, k) == IF props[k].isOnce THEN [props EXCEPT ![k] = NoEvent] ELSE props

\* the listener on the body, from node k on: the do-while loop over
\* curNode.parentNode; calls are the calls of delegateEvent so far
RECURSIVE listener(_, _, _, _, _)
listener(lookup, props, k, stops, calls) ==
    IF k > Len(EventNodes) THEN [props |-> props, calls |-> calls]
    ELSE IF props[k] = NoEvent THEN listener(lookup, props, k + 1, stops, calls)
    ELSE LET r == delegateEvent(lookup, props[k])
             call == [node |-> k, target |-> props[k],
                      registered |-> props[k].component \in lookup,
                      outcome |-> r.outcome, invoked |-> r.invoked]
         IN IF r.outcome = "throw" \/ (r.invoked /\ stops)
               THEN [props |-> AfterDelegate(props, k), calls |-> Append(calls, call)]
               ELSE listener(lookup, AfterDelegate(props, k), k + 1, stops, Append(calls, call))

InitEvents ==
    /\ IdleKeys /\ IdleAsync /\ IdleSubs /\ IdleDirty /\ IdleLoader /\ IdleFragment /\ IdleForm /\ IdleAttrs /\ IdleMain /\ IdleVNodes /\ IdleQueue
    /\ IdleState
    /\ dLookup = EventComponents
    /\ dProps \in [1..Len(EventNodes) -> EventInfos]
    /\ dLast = <<>>
    /\ dCount = 0

\* component.destroy(): delete componentLookup[this.id]
EventComponentDestroyed ==
    /\ \E c \in dLookup : dLookup' = dLookup \ {c}
    /\ UNCHANGED <<dProps, dLast, dCount>>
    /\ UNCHANGED <<keyVars, attrVars, mainVars, vnodeVars, queueVars, formVars, fragVars, stateVars, loaderVars, dirtyVars, subsVars, asyncVars>>

\* the browser dispatches a click whose target is node k
Dispatch ==
    /\ dCount < MaxDispatches
    /\ dCount' = dCount + 1
    /\ \E k \in 1..Len(EventNodes), stops \in BOOLEAN :
          LET r == listener(dLookup, dProps, k, stops, <<>>)
          IN dProps' = r.props /\ dLast' = r.calls
    /\ UNCHANGED dLookup
    /\ UNCHANGED <<keyVars, attrVars, mainVars, vnodeVars, queueVars, formVars, fragVars, stateVars, loaderVars, dirtyVars, subsVars, asyncVars>>

NextEvents == EventComponentDestroyed \/ Dispatch

SpecEvents == InitEvents /\ [][NextEvents]_vars

MethodFound(target) == target.method = TargetFunction \/ target.method \in Methods

\* C28: a delegated DOM event whose target component is registered but has
\* no method of the given name raises the Method-not-found error at once and
\* calls no handler; when the id of the target component is no longer
\* registered the event is dropped for that target, without an error and
\* without a call of a handler.
C28_MissingMethodOrComponent ==
    \A i \in 1..Len(dLast) :
        /\ (dLast[i].registered /\ ~MethodFound(dLast[i].target)) =>
              /\ dLast[i].outcome = "throw"
              /\ ~dLast[i].invoked
              /\ i = Len(dLast)
        /\ ~dLast[i].registered =>
              /\ dLast[i].outcome = "return"
              /\ ~dLast[i].invoked

\* a click on the button: its target component was destroyed, the form's
\* component is registered and has no method of the name
C28_Witness ==
    /\ Len(dLast) = Len(EventNodes)
    /\ ~dLast[1].registered /\ dLast[1].outcome = "return"
    /\ dLast[Len(dLast)].registered /\ dLast[Len(dLast)].outcome = "throw"

(***************************************************************************)
(* SpecLoader: the module runtime $_mod.  A path is <<name, extension>>.   *)
(* Three modules are defined; the factory of /a and of /b sets exports.x,  *)
(* requires one target (lDefs) and sets exports.y; the factory of          *)
(* /dir/index sets exports.x.  /dir has a main, /old is remapped to /b,    *)
(* and /none is not defined.  A call of the API runs to its end: the       *)
(* factories call require and nothing else of the runtime.                 *)
(***************************************************************************)
MaxLoaderCalls == 3

PathA == <<"/a", "">>
PathB == <<"/b", "">>
PathIndex == <<"/dir/index", "">>
definitions == {PathA, PathB, PathIndex}
mains == [p \in {<<"/dir", "">>} |-> ""]
remapped == [p \in {<<"/old", "">>} |-> PathB]
LoaderTargets == {PathA, <<"/a", "js">>, PathB, <<"/old", "">>, <<"/dir", "">>, <<"/none", "">>}
NotFound == <<>>

\* join(from, target) for a directory and a relative path
join(from, target) == <<from[1] \o "/" \o target, "">>

\* withoutExtension(path): null (NotFound) when the path has none
withoutExtension(path) == IF path[2] = "" THEN NotFound ELSE <<path[1], "">>

\* resolve(target, from) for an absolute target: resolved[0], or undefined
resolve(target) ==
    LET withMain == IF target \in DOMAIN mains
                       THEN join(target, IF mains[target] = "" THEN "index" ELSE mains[target])
                       ELSE target
        resolvedPath == IF withMain \in DOMAIN remapped THEN remapped[withMain] ELSE withMain
    IN IF resolvedPath \in definitions THEN resolvedPath
       ELSE IF withoutExtension(resolvedPath) = NotFound
                  \/ withoutExtension(resolvedPath) \notin definitions THEN NotFound
       ELSE withoutExtension(resolvedPath)

\* an instance cache that goes by what was asked for
instanceCacheKey_target(target, resolvedPath) == target

\* the key of instanceCache: instanceCache[resolvedPath]
instanceCacheKey(target, resolvedPath) == resolvedPath

\* the factory of a module: what it does, in order
FactoryOf(path) ==
    IF path = PathIndex THEN <<[op |-> "export", name |-> "x"]>>
    ELSE <<[op |-> "export", name |-> "x"],
           [op |-> "require", target |-> IF path = PathA THEN lDefs.a ELSE lDefs.b],
           [op |-> "export", name |-> "y"]>>

\* exports.name = ... of the steps before step pc
ExportsBefore(path, pc) ==
    {FactoryOf(path)[k].name : k \in {j \in 1..(pc - 1) : FactoryOf(path)[j].op = "export"}}

\* the step at which the factory of /a or of /b calls require
RequireStep(path) == CHOOSE k \in 1..Len(FactoryOf(path)) : FactoryOf(path)[k].op = "require"

NewLoader ==
    [cache |-> [p \in {} |-> [loaded |-> FALSE, exports |-> {}]],
     runs |-> [p \in definitions |-> 0],
     stack |-> <<>>, obs |-> <<>>, err |-> FALSE]

RECURSIVE requireModule(_, _)
RECURSIVE Module_load(_, _, _, _)

\* requireModule(target, from), with module.exports as the caller sees it
requireModule(L, target) ==
    LET resolvedPath == resolve(target)
        key == instanceCacheKey(target, resolvedPath)
        Seen(L1) ==
            IF L1.err THEN L1
            ELSE [L1 EXCEPT !.obs = Append(@, [module |-> resolvedPath,
                                               executing |-> Has(L1.stack, resolvedPath),
                                               loaded |-> L1.cache[key].loaded,
                                               exports |-> L1.cache[key].exports])]
        Loaded(L2) ==
            IF L2.err THEN L2
            ELSE [L2 EXCEPT !.cache[key].loaded = TRUE,
                            !.stack = SubSeq(@, 1, Len(@) - 1)]
    IN IF L.err THEN L
       ELSE IF resolvedPath = NotFound THEN [L EXCEPT !.err = TRUE, !.stack = <<>>]
       ELSE IF key \in DOMAIN L.cache THEN Seen(L)
       ELSE Seen(Loaded(Module_load(
                [L EXCEPT !.cache = Put(@, key, [loaded |-> FALSE, exports |-> {}]),
                          !.runs[resolvedPath] = @ + 1,
                          !.stack = Append(@, resolvedPath)],
                key, resolvedPath, 1)))

\* Module.prototype.load(factoryOrObject): the factory from step pc on
Module_load(L, key, path, pc) ==
    IF L.err \/ pc > Len(FactoryOf(path)) THEN L
    ELSE LET step == FactoryOf(path)[pc]
         IN Module_load(IF step.op = "export"
                            THEN [L EXCEPT !.cache[key].exports = @ \cup {step.name}]
                            ELSE requireModule(L, step.target),
                        key, path, pc + 1)

\* a call from outside starts with no observations and no error
Fresh(L) == [L EXCEPT !.obs = <<>>, !.err = FALSE, !.stack = <<>>]

\* run(path, options): R is [mod, run, hist]
Request(R, path, wait) ==
    [R EXCEPT !.hist.reqs = Append(@, [path |-> path, wait |-> wait,
                                       ready |-> R.run.ready, pending |-> R.run.pending,
                                       now |-> ~(wait /\ ~R.run.ready)])]

run(R, id) ==
    LET path == R.hist.reqs[id].path
        wait == R.hist.reqs[id].wait
    IN IF wait /\ ~R.run.ready
          THEN [R EXCEPT !.run.queue = Append(@, id)]
          ELSE [R EXCEPT !.mod = requireModule(R.mod, path),
                         !.hist.exec = Append(@, id)]

\* the for loop of ready() over the queue it took
RECURSIVE runAll(_, _)
runAll(R, queue) ==
    IF queue = <<>> \/ R.mod.err THEN R
    ELSE runAll(run(R, Head(queue)), Tail(queue))

\* ready(): the factories do not touch _ready, so the while loop ends
\* after one round
ready(R) ==
    LET R1 == [R EXCEPT !.run.ready = TRUE]
    IN IF R1.run.queue = <<>> THEN R1
       ELSE runAll([R1 EXCEPT !.run.queue = <<>>], R1.run.queue)

\* a ready() that runs the queue and keeps it
ready_keep(R) ==
    LET R1 == [R EXCEPT !.run.ready = TRUE]
    IN IF R1.run.queue = <<>> THEN R1 ELSE runAll(R1, R1.run.queue)

LoaderState == [mod |-> Fresh(lMod), run |-> lRun, hist |-> lHist]

LoaderBecomes(R) == lMod' = R.mod /\ lRun' = R.run /\ lHist' = R.hist

LoaderCall == lHist.calls < MaxLoaderCalls

Called(R) == [R EXCEPT !.hist.calls = @ + 1]

InitLoader ==
    /\ IdleKeys /\ IdleAsync /\ IdleSubs /\ IdleDirty /\ IdleFragment /\ IdleForm /\ IdleAttrs /\ IdleMain /\ IdleVNodes /\ IdleQueue
    /\ IdleState /\ IdleEvents
    /\ lDefs \in [a : LoaderTargets, b : LoaderTargets]
    /\ lMod = NewLoader
    /\ lRun = [ready |-> FALSE, queue |-> <<>>, pending |-> 0]
    /\ lHist = [reqs |-> <<>>, exec |-> <<>>, calls |-> 0]

\* $_mod.require(target, "/")
LoaderRequire ==
    /\ LoaderCall
    /\ \E target \in LoaderTargets :
          LoaderBecomes(Called([LoaderState EXCEPT !.mod = requireModule(@, target)]))
    /\ UNCHANGED lDefs
    /\ UNCHANGED <<keyVars, attrVars, mainVars, vnodeVars, queueVars, formVars, fragVars, stateVars, eventVars, dirtyVars, subsVars, asyncVars>>

\* $_mod.run(path, options)
LoaderRun ==
    /\ LoaderCall
    /\ \E path \in {PathA, PathB, <<"/none", "">>}, wait \in BOOLEAN :
          LET R == Request(Called(LoaderState), path, wait)
          IN LoaderBecomes(run(R, Len(R.hist.reqs)))
    /\ UNCHANGED lDefs
    /\ UNCHANGED <<keyVars, attrVars, mainVars, vnodeVars, queueVars, formVars, fragVars, stateVars, eventVars, dirtyVars, subsVars, asyncVars>>

\* $_mod.ready()
LoaderReady ==
    /\ LoaderCall
    /\ LoaderBecomes(ready(Called(LoaderState)))
    /\ UNCHANGED lDefs
    /\ UNCHANGED <<keyVars, attrVars, mainVars, vnodeVars, queueVars, formVars, fragVars, stateVars, eventVars, dirtyVars, subsVars, asyncVars>>

\* $_mod.pending()
LoaderPending ==
    /\ LoaderCall
    /\ LoaderBecomes(Called([LoaderState EXCEPT !.run.ready = FALSE, !.run.pending = @ + 1]))
    /\ UNCHANGED lDefs
    /\ UNCHANGED <<keyVars, attrVars, mainVars, vnodeVars, queueVars, formVars, fragVars, stateVars, eventVars, dirtyVars, subsVars, asyncVars>>

\* job.done() of a job that has not called it yet: onPendingComplete
LoaderDone ==
    /\ LoaderCall
    /\ lRun.pending > 0
    /\ LET R == Called([LoaderState EXCEPT !.run.pending = @ - 1])
       IN LoaderBecomes(IF R.run.pending = 0 THEN ready(R) ELSE R)
    /\ UNCHANGED lDefs
    /\ UNCHANGED <<keyVars, attrVars, mainVars, vnodeVars, queueVars, formVars, fragVars, stateVars, eventVars, dirtyVars, subsVars, asyncVars>>

NextLoader == LoaderRequire \/ LoaderRun \/ LoaderReady \/ LoaderPending \/ LoaderDone

SpecLoader == InitLoader /\ [][NextLoader]_vars

\* C29: the factory of each defined module is executed at most once, and a
\* require of a module whose factory is still executing returns the exports
\* of that module as far as the factory has set them, without running the
\* factory again.
C29_FactoryOnce ==
    /\ \A path \in definitions : lMod.runs[path] <= 1
    /\ \A k \in 1..Len(lMod.obs) :
          lMod.obs[k].executing =>
              /\ ~lMod.obs[k].loaded
              /\ lMod.obs[k].exports = ExportsBefore(lMod.obs[k].module,
                                                      RequireStep(lMod.obs[k].module))

\* /a and /b require each other, under other names: the inner require got
\* the partial exports, and both factories have run
C29_Witness ==
    /\ lDefs.a = <<"/old", "">> /\ lDefs.b = <<"/a", "js">>
    /\ \E k \in 1..Len(lMod.obs) : lMod.obs[k].executing /\ lMod.obs[k].exports = {"x"}
    /\ lMod.runs[PathA] = 1 /\ lMod.runs[PathB] = 1
    /\ ~lMod.err

\* the requests that waited, and those of them that were executed, in order
Deferred == SelectSeq([k \in 1..Len(lHist.reqs) |-> k], LAMBDA id : ~lHist.reqs[id].now)
ExecutedDeferred == SelectSeq(lHist.exec, LAMBDA id : ~lHist.reqs[id].now)

\* C30: a run(path) request made with waiting enabled while the runtime is
\* not ready, or while a job obtained from pending() has not called done(),
\* is not executed at that time; it is executed exactly once, in request
\* order, once the runtime is ready.
C30_RunWaits ==
    /\ \A id \in 1..Len(lHist.reqs) :
          (lHist.reqs[id].wait /\ (~lHist.reqs[id].ready \/ lHist.reqs[id].pending > 0))
              => ~lHist.reqs[id].now
    /\ Len(ExecutedDeferred) <= Len(Deferred)
    /\ ExecutedDeferred = SubSeq(Deferred, 1, Len(ExecutedDeferred))
    /\ (lRun.ready /\ ~lMod.err) => ExecutedDeferred = Deferred

\* the same for the requests made while the runtime was not ready
C30_RunWaitsWhileNotReady ==
    /\ \A id \in 1..Len(lHist.reqs) :
          (lHist.reqs[id].wait /\ ~lHist.reqs[id].ready) => ~lHist.reqs[id].now
    /\ Len(ExecutedDeferred) <= Len(Deferred)
    /\ ExecutedDeferred = SubSeq(Deferred, 1, Len(ExecutedDeferred))

(***************************************************************************)
(* SpecDirty: user code calls setState, setStateDirty, forceUpdate,        *)
(* update() and assigns input on mounted components, on an empty stack or  *)
(* inside batchUpdate; the callback given to nextTick runs the unbatched   *)
(* queue.  No update throws and no call is made from inside an update.     *)
(***************************************************************************)
MaxDirtyCalls == 4

DirtyValues == {"1", "2"}

\* a mounted component: r_ (queued), s_ (input dirty), g_ with the state's
\* s_ flag and the value V_.p, and the input n_
MountedComponent == [r_ |-> FALSE, s_ |-> FALSE, g_ |-> [s_ |-> FALSE, p |-> "1"], n_ |-> "1"]

DirtyState == [comp |-> yComp, unbatched |-> yUnbatched, batches |-> yBatches, scheduled |-> yScheduled]

DirtyBecomes(Y) ==
    /\ yComp' = Y.comp /\ yUnbatched' = Y.unbatched /\ yBatches' = Y.batches
    /\ yScheduled' = Y.scheduled

\* queueComponentUpdate(component)
H_(Y, c) ==
    IF Y.batches # <<>>
        THEN [Y EXCEPT !.batches[Len(Y.batches)] = Append(@, c)]
        ELSE [Y EXCEPT !.scheduled = TRUE, !.unbatched = Append(@, c)]

\* Component.D_
D_(Y, c) == IF Y.comp[c].r_ THEN Y ELSE H_([Y EXCEPT !.comp[c].r_ = TRUE], c)

\* a D_ that queues the component whatever the flag says
D_always(Y, c) == H_([Y EXCEPT !.comp[c].r_ = TRUE], c)

\* State.E_(name, value, true, forceDirty) for the property p
E_(Y, c, value, forceDirty) ==
    IF ~forceDirty /\ Y.comp[c].g_.p = value THEN Y
    ELSE LET Y1 == IF Y.comp[c].g_.s_ THEN Y ELSE D_([Y EXCEPT !.comp[c].g_.s_ = TRUE], c)
         IN [Y1 EXCEPT !.comp[c].g_.p = value]

\* checkInputChanged(existingComponent, oldInput, newInput)
checkInputChanged(oldInput, newInput) == oldInput # newInput

\* Component.F_(newInput) of a component without onInput
F_(Y, c, newInput) ==
    LET changed == checkInputChanged(Y.comp[c].n_, newInput)
        Y1 == [Y EXCEPT !.comp[c].s_ = changed]
    IN [(IF changed THEN D_(Y1, c) ELSE Y1) EXCEPT !.comp[c].n_ = newInput]

\* get I_
I_(Y, c) == Y.comp[c].s_ \/ Y.comp[c].g_.s_

\* Component.f_
f_(Y, c) == [Y EXCEPT !.comp[c].s_ = FALSE, !.comp[c].r_ = FALSE, !.comp[c].g_.s_ = FALSE]

\* Component.update of a live component: the update handlers or the
\* re-render, then f_
update(Y, c) == IF ~I_(Y, c) THEN Y ELSE f_(Y, c)

\* updateComponents(queue) on a queue no update adds to
RECURSIVE updateComponents_all(_, _)
updateComponents_all(Y, queue) ==
    IF queue = <<>> THEN Y ELSE updateComponents_all(update(Y, Head(queue)), Tail(queue))

InitDirty ==
    /\ IdleKeys /\ IdleAsync /\ IdleSubs /\ IdleLoader /\ IdleEvents /\ IdleState /\ IdleFragment /\ IdleForm /\ IdleAttrs /\ IdleMain /\ IdleVNodes /\ IdleQueue
    /\ yComp = [c \in Components |-> MountedComponent]
    /\ yUnbatched = <<>> /\ yBatches = <<>> /\ yScheduled = FALSE /\ yCalls = 0

DirtyCall(Y) ==
    /\ yCalls < MaxDirtyCalls
    /\ yCalls' = yCalls + 1
    /\ DirtyBecomes(Y)
    /\ UNCHANGED <<keyVars, attrVars, mainVars, vnodeVars, queueVars, formVars, fragVars, stateVars, eventVars, loaderVars, subsVars, asyncVars>>

\* component.setState("p", value)
DirtySetState ==
    \E c \in Components, value \in DirtyValues : DirtyCall(E_(DirtyState, c, value, FALSE))

\* component.setStateDirty("p")
DirtySetStateDirty ==
    \E c \in Components : DirtyCall(E_(DirtyState, c, yComp[c].g_.p, TRUE))

\* component.forceUpdate()
DirtyForceUpdate ==
    \E c \in Components : DirtyCall(D_([DirtyState EXCEPT !.comp[c].s_ = TRUE], c))

\* component.input = newInput
DirtySetInput ==
    \E c \in Components, newInput \in DirtyValues : DirtyCall(F_(DirtyState, c, newInput))

\* component.update()
DirtyUpdate ==
    \E c \in Components : DirtyCall(update(DirtyState, c))

\* batchUpdate(func) is entered: batchStack.push(batch)
DirtyBatchBegin ==
    /\ yBatches = <<>>
    /\ DirtyCall([DirtyState EXCEPT !.batches = Append(@, <<>>)])

\* func has returned: updateComponents(batch.ao_) and batchStack.length--
DirtyBatchEnd ==
    /\ yBatches # <<>>
    /\ LET Y == updateComponents_all(DirtyState, yBatches[Len(yBatches)])
       IN DirtyBecomes([Y EXCEPT !.batches = SubSeq(@, 1, Len(@) - 1)])
    /\ UNCHANGED yCalls
    /\ UNCHANGED <<keyVars, attrVars, mainVars, vnodeVars, queueVars, formVars, fragVars, stateVars, eventVars, loaderVars, subsVars, asyncVars>>

\* the callback given to nextTick: updateUnbatchedComponents
DirtyTick ==
    /\ yScheduled /\ yBatches = <<>>
    /\ LET Y == updateComponents_all(DirtyState, yUnbatched)
       IN DirtyBecomes([Y EXCEPT !.unbatched = <<>>, !.scheduled = FALSE])
    /\ UNCHANGED yCalls
    /\ UNCHANGED <<keyVars, attrVars, mainVars, vnodeVars, queueVars, formVars, fragVars, stateVars, eventVars, loaderVars, subsVars, asyncVars>>

NextDirty ==
    \/ DirtySetState \/ DirtySetStateDirty \/ DirtyForceUpdate \/ DirtySetInput
    \/ DirtyUpdate \/ DirtyBatchBegin \/ DirtyBatchEnd \/ DirtyTick

SpecDirty == InitDirty /\ [][NextDirty]_vars

\* the component waits in the unbatched queue or in the queue of an open
\* batch
Pending(c) ==
    \/ Has(yUnbatched, c)
    \/ \E b \in 1..Len(yBatches) : Has(yBatches[b], c)

\* C33: whenever a mounted component is dirty (its input flag or its state
\* flag is set) it waits in the unbatched queue or in an open batch.
C33_DirtyIsPending ==
    \A c \in Components : I_(DirtyState, c) => Pending(c)

\* a callback is scheduled exactly when the unbatched queue holds a
\* component, and a component is put in a queue only with its flag set
C33_QueuedWithFlag ==
    /\ yScheduled <=> yUnbatched # <<>>
    /\ \A c \in Components : (Pending(c) /\ I_(DirtyState, c)) => yComp[c].r_

(***************************************************************************)
(* SpecSubs: a component subscribes to an event emitter that is not a      *)
(* component with subscribeTo(target).on and subscribeTo(target).once, the *)
(* target emits events, and the component is destroyed.  A function is a   *)
(* record: a user listener, the wrappedListener that                       *)
(* EventEmitterWrapper.once makes for a user listener, or the function g   *)
(* that EventEmitter.once makes for the function it is given.              *)
(***************************************************************************)
MaxSubsOps == 4

EventTypes == {"e", "f"}

UserListeners == {1, 2}

NoFn == [kind |-> "none", id |-> 0, w |-> 0, n |-> 0]

UserFn(callback) == [kind |-> "user", id |-> callback, w |-> 0, n |-> 0]

\* the wrappedListener of call n of once on wrapper w for a user listener
WrappedFn(callback, w, n) == [kind |-> "wrapped", id |-> callback, w |-> w, n |-> n]

\* the function g of EventEmitter.once(type, fn)
OnceFn(fn) == [fn EXCEPT !.kind = IF fn.kind = "wrapped" THEN "g-wrapped" ELSE "g-user"]

\* the function a g calls
InnerFn(g) == [g EXCEPT !.kind = IF g.kind = "g-wrapped" THEN "wrapped" ELSE "user"]

SubsState ==
    [events |-> zEvents, wrappers |-> zWrappers, list |-> zList, destroyed |-> zDestroyed,
     invoked |-> zInvoked]

SubsBecomes(Z) ==
    /\ zEvents' = Z.events /\ zWrappers' = Z.wrappers /\ zList' = Z.list
    /\ zDestroyed' = Z.destroyed /\ zInvoked' = Z.invoked

\* EventEmitter.on(type, listener) of the target
EventEmitter_on(Z, type, fn) == [Z EXCEPT !.events[type] = Append(@, fn)]

\* EventEmitter.once(type, listener) of the target: this.on(type, g)
EventEmitter_once(Z, type, fn) == EventEmitter_on(Z, type, OnceFn(fn))

\* EventEmitter.removeListener(type, listener) of the target
EventEmitter_removeListener(Z, type, fn) ==
    [Z EXCEPT !.events[type] = SelectSeq(@, LAMBDA f : f # fn)]

\* target.removeListener for each of the entries, the last entry first
RECURSIVE removeEach(_, _, _)
removeEach(Z, entries, wrapped) ==
    IF entries = <<>> THEN Z
    ELSE LET cur == entries[Len(entries)]
         IN removeEach(EventEmitter_removeListener(Z, cur.event,
                                                   IF wrapped THEN cur.wrapped ELSE cur.listener),
                       SubSeq(entries, 1, Len(entries) - 1), wrapped)

\* EventEmitterWrapper.on(event, listener)
EventEmitterWrapper_on(Z, w, event, callback) ==
    [EventEmitter_on(Z, event, UserFn(callback))
        EXCEPT !.wrappers[w] = Append(@, [event |-> event, listener |-> UserFn(callback),
                                          wrapped |-> NoFn])]

\* EventEmitterWrapper.once(event, listener), the n-th call
EventEmitterWrapper_once(Z, w, event, callback, n) ==
    [EventEmitter_once(Z, event, WrappedFn(callback, w, n))
        EXCEPT !.wrappers[w] = Append(@, [event |-> event, listener |-> UserFn(callback),
                                          wrapped |-> WrappedFn(callback, w, n)])]

\* EventEmitterWrapper.$__remove(test, true) with the test of a
\* wrappedListener: the entries it wraps are removed from the target and
\* from the wrapper, and an empty wrapper leaves the list of the tracker
EventEmitterWrapper_remove(Z, w, wrappedListener) ==
    LET hit == SelectSeq(Z.wrappers[w], LAMBDA cur : cur.wrapped = wrappedListener)
        kept == SelectSeq(Z.wrappers[w], LAMBDA cur : cur.wrapped # wrappedListener)
        Z1 == [removeEach(Z, hit, TRUE) EXCEPT !.wrappers[w] = kept]
    IN IF kept = <<>> THEN [Z1 EXCEPT !.list = SelectSeq(@, LAMBDA cur : cur # w)] ELSE Z1

\* EventEmitterWrapper.removeAllListeners() without an event
EventEmitterWrapper_removeAllListeners(Z, w) ==
    [removeEach(Z, Z.wrappers[w], FALSE) EXCEPT !.wrappers[w] = <<>>]

\* SubscriptionTracker.removeAllListeners() without a target
RECURSIVE SubscriptionTracker_each(_, _)
SubscriptionTracker_each(Z, list) ==
    IF list = <<>> THEN Z
    ELSE SubscriptionTracker_each(EventEmitterWrapper_removeAllListeners(Z, list[Len(list)]),
                                  SubSeq(list, 1, Len(list) - 1))

SubscriptionTracker_removeAllListeners(Z) ==
    [SubscriptionTracker_each(Z, Z.list) EXCEPT !.list = <<>>]

\* SubscriptionTracker.subscribeTo(target, {addDestroyListener: false}):
\* the wrapper of the target in the list, or a new wrapper
SubscriptionTracker_subscribeTo(Z) ==
    IF Z.list # <<>> THEN [Z |-> Z, w |-> Z.list[1]]
    ELSE [Z |-> [Z EXCEPT !.wrappers = Append(@, <<>>), !.list = <<Len(Z.wrappers) + 1>>],
          w |-> Len(Z.wrappers) + 1]

\* Component.y_: the destroy event, q_ and subscriptions.removeAllListeners()
Component_y_subscriptions(Z) ==
    [SubscriptionTracker_removeAllListeners(Z) EXCEPT !.destroyed = TRUE]

\* invokeListener(ee, listener, args) for the three kinds of function
invokeListener(Z, type, fn) ==
    LET User(Y, f) == [Y EXCEPT !.invoked = Append(@, [listener |-> f.id, destroyed |-> Y.destroyed])]
        Wrapped(Y, f) == User(EventEmitterWrapper_remove(Y, f.w, f), f)
    IN IF fn.kind = "user" THEN User(Z, fn)
       ELSE IF fn.kind = "g-user" THEN User(EventEmitter_removeListener(Z, type, fn), fn)
       ELSE Wrapped(EventEmitter_removeListener(Z, type, fn), InnerFn(fn))

\* EventEmitter.emit(type): the listeners of a copy of the list, in order
RECURSIVE invokeEach(_, _, _)
invokeEach(Z, type, listeners) ==
    IF listeners = <<>> THEN Z
    ELSE invokeEach(invokeListener(Z, type, Head(listeners)), type, Tail(listeners))

EventEmitter_emit(Z, type) == invokeEach([Z EXCEPT !.invoked = <<>>], type, Z.events[type])

InitSubs ==
    /\ IdleKeys /\ IdleAsync /\ IdleLoader /\ IdleEvents /\ IdleState /\ IdleFragment /\ IdleForm /\ IdleAttrs /\ IdleMain /\ IdleVNodes /\ IdleQueue /\ IdleDirty
    /\ zEvents = [type \in EventTypes |-> <<>>]
    /\ zWrappers = <<>> /\ zList = <<>> /\ zDestroyed = FALSE /\ zInvoked = <<>> /\ zOps = 0

SubsCall(Z) ==
    /\ zOps < MaxSubsOps
    /\ zOps' = zOps + 1
    /\ SubsBecomes(Z)
    /\ UNCHANGED <<keyVars, attrVars, mainVars, vnodeVars, queueVars, formVars, fragVars, stateVars, eventVars, loaderVars, dirtyVars, asyncVars>>

\* component.subscribeTo(target).on(event, listener)
SubscribeOn ==
    /\ ~zDestroyed
    /\ \E event \in EventTypes, callback \in UserListeners :
          LET s == SubscriptionTracker_subscribeTo(SubsState)
          IN SubsCall(EventEmitterWrapper_on(s.Z, s.w, event, callback))

\* component.subscribeTo(target).once(event, listener)
SubscribeOnce ==
    /\ ~zDestroyed
    /\ \E event \in EventTypes, callback \in UserListeners :
          LET s == SubscriptionTracker_subscribeTo(SubsState)
          IN SubsCall(EventEmitterWrapper_once(s.Z, s.w, event, callback, zOps + 1))

\* target.emit(event)
TargetEmit ==
    \E event \in EventTypes : SubsCall(EventEmitter_emit(SubsState, event))

\* component.destroy()
SubsDestroy ==
    /\ ~zDestroyed
    /\ SubsCall(Component_y_subscriptions(SubsState))

NextSubs == SubscribeOn \/ SubscribeOnce \/ TargetEmit \/ SubsDestroy

SpecSubs == InitSubs /\ [][NextSubs]_vars

\* C36: an event the target emits after the component is destroyed invokes
\* no listener the component registered through subscribeTo(target).on or
\* subscribeTo(target).once.
C36_NoListenerAfterDestroy ==
    \A k \in 1..Len(zInvoked) : ~zInvoked[k].destroyed

\* after the destroy no function registered by subscribeTo(target).on is
\* left on the target
C36_OnListenersRemoved ==
    zDestroyed => \A type \in EventTypes :
                      \A k \in 1..Len(zEvents[type]) : zEvents[type][k].kind # "user"

(***************************************************************************)
(* SpecAsync: a root AsyncVDOMBuilder and the nested outputs that          *)
(* beginAsync starts on outputs that have not ended.  Each output is ended *)
(* once.  Finish listeners are registered with on and once, before and     *)
(* after the end of the render.                                            *)
(***************************************************************************)
MaxOuts == 4

FinishListeners == {1, 2}

\* new AsyncVDOMBuilder(globalData, parentNode, parentOut)
AsyncVDOMBuilder(parentOut) == [bf_ |-> 1, bi_ |-> parentOut, ended |-> FALSE]

AsyncState == [outs |-> oOuts, state |-> oState, calls |-> oCalls]

AsyncBecomes(O) == oOuts' = O.outs /\ oState' = O.state /\ oCalls' = O.calls

\* callback(result) of a finish listener
finishCallback(O, callback) == [O EXCEPT !.calls[callback].n = @ + 1]

RECURSIVE finishEach(_, _)
finishEach(O, listeners) ==
    IF listeners = <<>> THEN O
    ELSE finishEach(finishCallback(O, Head(listeners).callback), Tail(listeners))

\* br_: state.be_ = true; state.bc_.emit("finish", result).  The listeners
\* of once leave the list.
br_(O) ==
    LET O1 == [O EXCEPT !.state.be_ = TRUE,
                        !.state.emitted = Append(@, {o \in 1..Len(O.outs) : ~O.outs[o].ended})]
        O2 == finishEach(O1, O.state.listeners)
    IN [O2 EXCEPT !.state.listeners = SelectSeq(@, LAMBDA l : ~l.once)]

\* bq_ of an output, repeated for its parent while the count reaches zero
RECURSIVE bq_(_, _)
bq_(O, out) ==
    LET remaining == O.outs[out].bf_ - 1
        O1 == [O EXCEPT !.outs[out].bf_ = remaining]
    IN IF remaining # 0 THEN O1
       ELSE IF O.outs[out].bi_ # 0 THEN bq_(O1, O.outs[out].bi_)
       ELSE br_(O1)

\* an end that emits finish as soon as its own count reaches zero
AsyncVDOMBuilder_end_own(O, out) ==
    LET remaining == O.outs[out].bf_ - 1
        O1 == [O EXCEPT !.outs[out].bf_ = remaining, !.outs[out].ended = TRUE]
    IN IF remaining = 0 THEN br_(O1) ELSE O1

\* AsyncVDOMBuilder.end
AsyncVDOMBuilder_end(O, out) ==
    LET remaining == O.outs[out].bf_ - 1
        O1 == [O EXCEPT !.outs[out].bf_ = remaining, !.outs[out].ended = TRUE]
    IN IF remaining # 0 THEN O1
       ELSE IF O.outs[out].bi_ # 0 THEN bq_(O1, O.outs[out].bi_)
       ELSE br_(O1)

\* AsyncVDOMBuilder.beginAsync() without options
AsyncVDOMBuilder_beginAsync(O, out) ==
    [O EXCEPT !.outs = Append([@ EXCEPT ![out].bf_ = @ + 1], AsyncVDOMBuilder(out))]

\* AsyncVDOMBuilder.on("finish", callback) and once("finish", callback)
AsyncVDOMBuilder_on(O, callback, isOnce) ==
    IF O.state.be_
        THEN finishCallback([O EXCEPT !.calls[callback].registered = "after"], callback)
        ELSE [O EXCEPT !.calls[callback].registered = "before",
                       !.state.listeners = Append(@, [callback |-> callback, once |-> isOnce])]

InitAsync ==
    /\ IdleKeys /\ IdleLoader /\ IdleEvents /\ IdleState /\ IdleFragment /\ IdleForm /\ IdleAttrs /\ IdleMain /\ IdleVNodes /\ IdleQueue /\ IdleDirty /\ IdleSubs
    /\ oOuts = <<AsyncVDOMBuilder(0)>>
    /\ oState = [be_ |-> FALSE, listeners |-> <<>>, emitted |-> <<>>]
    /\ oCalls = [callback \in FinishListeners |-> [registered |-> "no", n |-> 0]]

\* out.beginAsync() on an output that has not ended
beginAsync ==
    /\ Len(oOuts) < MaxOuts
    /\ \E out \in 1..Len(oOuts) :
          /\ ~oOuts[out].ended
          /\ AsyncBecomes(AsyncVDOMBuilder_beginAsync(AsyncState, out))
    /\ UNCHANGED <<keyVars, attrVars, mainVars, vnodeVars, queueVars, formVars, fragVars, stateVars, eventVars, loaderVars, dirtyVars, subsVars>>

\* out.end() on an output that has not ended
end ==
    /\ \E out \in 1..Len(oOuts) :
          /\ ~oOuts[out].ended
          /\ AsyncBecomes(AsyncVDOMBuilder_end(AsyncState, out))
    /\ UNCHANGED <<keyVars, attrVars, mainVars, vnodeVars, queueVars, formVars, fragVars, stateVars, eventVars, loaderVars, dirtyVars, subsVars>>

\* out.on("finish", callback) or out.once("finish", callback) with a
\* callback that is not registered yet
onFinish ==
    /\ \E callback \in FinishListeners, isOnce \in BOOLEAN :
          /\ oCalls[callback].registered = "no"
          /\ AsyncBecomes(AsyncVDOMBuilder_on(AsyncState, callback, isOnce))
    /\ UNCHANGED <<keyVars, attrVars, mainVars, vnodeVars, queueVars, formVars, fragVars, stateVars, eventVars, loaderVars, dirtyVars, subsVars>>

NextAsync == beginAsync \/ end \/ onFinish

SpecAsync == InitAsync /\ [][NextAsync]_vars

AllEnded == \A out \in 1..Len(oOuts) : oOuts[out].ended

\* C37: the finish event is emitted once, when the root and every nested
\* output have ended and not before, and every finish listener, registered
\* before or after the end of the render, has been invoked once from then
\* on and not before.
C37_FinishOnce ==
    /\ Len(oState.emitted) = (IF AllEnded THEN 1 ELSE 0)
    /\ \A k \in 1..Len(oState.emitted) : oState.emitted[k] = {}
    /\ oState.be_ <=> AllEnded
    /\ \A callback \in FinishListeners :
          oCalls[callback].n = (IF oCalls[callback].registered # "no" /\ AllEnded THEN 1 ELSE 0)

\* a render with nested outputs two levels deep has finished with one
\* listener registered before the end and one after
C37_Witness ==
    /\ AllEnded
    /\ \E out \in 1..Len(oOuts) : oOuts[out].bi_ > 1
    /\ \E a, b \in FinishListeners :
          oCalls[a].registered = "before" /\ oCalls[b].registered = "after"

(***************************************************************************)
(* Between passes the model keeps the real nodes that are still reachable  *)
(* (from the mount point, from a registered component or from a key table) *)
(* and numbers them in document order: node ids are names, ids of          *)
(* unreachable nodes are free.                                             *)
(***************************************************************************)
Refs(N, node) ==
    ({N[node].parent, N[node].fragment, N[node].startNode, N[node].endNode,
      N[node].detachedContainer} \cup {N[node].kids[i] : i \in 1..Len(N[node].kids)}) \ {NoNode}

RECURSIVE Reach(_, _)
Reach(N, nodes) ==
    LET more == nodes \cup UNION {Refs(N, node) : node \in nodes}
    IN IF more = nodes THEN nodes ELSE Reach(N, more)

RECURSIVE Preorder(_, _)
Preorder(N, nodes) ==
    IF nodes = <<>> THEN <<>>
    ELSE LET node == Head(nodes)
             f == N[node].fragment
             own == IF f # NoNode /\ N[f].startNode = node
                       THEN <<node, f, N[f].detachedContainer>> ELSE <<node>>
         IN own \o Preorder(N, N[node].kids) \o Preorder(N, Tail(nodes))

RECURSIVE Ascending(_)
Ascending(nodes) ==
    IF nodes = {} THEN <<>>
    ELSE LET least == CHOOSE n \in nodes : \A m \in nodes : n <= m
         IN <<least>> \o Ascending(nodes \ {least})

Range(seq) == {seq[i] : i \in 1..Len(seq)}

KeptRoots(C, lookup) ==
    {MountPoint}
    \cup {C[c].h_ : c \in lookup}
    \cup UNION {{C[c].v_[k] : k \in DOMAIN C[c].v_} : c \in lookup}
    \cup UNION {UNION {{C[c].vr_[k][i] : i \in DOMAIN C[c].vr_[k]} : k \in DOMAIN C[c].vr_} : c \in lookup}

Renumbered(N, C, lookup) ==
    LET kept == Reach(N, KeptRoots(C, lookup) \ {NoNode})
        Order(live) == live \o Ascending(kept \ Range(live))
        Numbered(order) ==
            LET Ren(n) == IF n = NoNode THEN NoNode ELSE IndexOf(order, n)
            IN [N |-> [i \in 1..Len(order) |->
                          [N[order[i]] EXCEPT !.parent = Ren(@), !.fragment = Ren(@),
                                              !.startNode = Ren(@), !.endNode = Ren(@),
                                              !.detachedContainer = Ren(@),
                                              !.kids = [j \in 1..Len(@) |-> Ren(@[j])]]],
                C |-> [c \in lookup |->
                          [C[c] EXCEPT !.h_ = Ren(@),
                                       !.v_ = [k \in DOMAIN @ |-> Ren(@[k])],
                                       !.vr_ = [k \in DOMAIN @ |-> [i \in DOMAIN @[k] |-> Ren(@[k][i])]]]]]
    IN Numbered(Order(Preorder(N, <<MountPoint>>)))

(***************************************************************************)
(* Spec: one top-level component is mounted and re-rendered.  Its template *)
(* renders a list of at most MaxKids nodes taken from the family chosen at *)
(* the start.  A pass can be observed: the observation keeps the state the *)
(* pass started from, its operations and its events, and the behaviour is  *)
(* not followed beyond an observed pass.                                   *)
(***************************************************************************)
Keyed(key) == Plain("DIV", key, <<>>)

Unkeyed(tagName, kids) == Plain(tagName, NullKey, kids)

WithAttrs(tagName, key, attrs) == VElement(tagName, attrs, 0, key, 0, 0, <<>>)

Const(constId, attrs, attrsId, kids) == VElement("DIV", attrs, attrsId, "0", 0, constId, kids)

Families ==
    [keyed |-> {Keyed("a"), Keyed("b"), Keyed("c")},
     unkeyed |-> {Unkeyed("DIV", <<>>), Unkeyed("SPAN", <<>>), VText("t")},
     mixed |-> {Keyed("a"), Unkeyed("DIV", <<VText("x")>>), VText("t")},
     nested |-> {Unkeyed("DIV", <<Keyed("a"), Keyed("b")>>),
                 Unkeyed("DIV", <<Keyed("b"), Keyed("a")>>),
                 Unkeyed("DIV", <<Unkeyed("SPAN", <<>>), VComment("c")>>)},
     components |-> {ComponentTag("X", "k", "1"), ComponentTag("Y", "m", "1"), VText("t")},
     inputs |-> {ComponentTag("X", "k", "1"), ComponentTag("X", "k", "2"), Keyed("a")},
     types |-> {ComponentTag("X", "k", "1"), ComponentTag("Y", "k", "1"),
                Unkeyed("DIV", <<ComponentTag("X", "m", "1")>>)},
     fragments |-> {VFragment("f", FALSE, <<Unkeyed("DIV", <<>>)>>),
                    VFragment("f", FALSE, <<VText("t")>>),
                    Keyed("a")},
     consts |-> {Const(1, [class |-> Str("a")], 2, <<VText("x")>>),
                 Const(1, [class |-> Str("b")], 3, <<VText("y")>>),
                 VElement("DIV", [class |-> Str("b")], 0, "0", 0, 0, <<VText("y")>>)},
     attributes |-> {WithAttrs("DIV", NullKey, [class |-> Str("a")]),
                     WithAttrs("DIV", NullKey, (ATTR_XLINK_HREF :> Str("#a"))),
                     WithAttrs("DIV", "a", EmptyObject)},
     shared |-> {ComponentTag("X", "k", "1"), Keyed("k"), VText("t")},
     tags |-> {Plain("DIV", "a", <<>>), Plain("SPAN", "a", <<>>), Keyed("b")}]

Modes == DOMAIN Families

TreesOf(mode) == UNION {[1..n -> Families[mode]] : n \in 0..MaxKids}

\* what an observed pass leaves in rObs: the state it started from and
\* what it did
Observation(S, tree, mounted) ==
    [on |-> TRUE, err |-> S.err, N |-> rN, C |-> rC, lookup |-> rLookup,
     tree |-> tree, mounted |-> mounted, log |-> S.log, ev |-> S.ev, z |-> S.z,
     consumed |-> S.consumed, tail |-> S.tail, marks |-> S.marks]

Mounted == RootId \in rLookup

Init ==
    /\ IdleKeys /\ IdleAsync /\ IdleSubs /\ IdleDirty /\ IdleLoader /\ IdleEvents /\ IdleState /\ IdleFragment /\ IdleForm /\ IdleAttrs /\ IdleVNodes /\ IdleQueue
    /\ rN = <<Node(DOCUMENT_FRAGMENT_NODE, "", "")>>
    /\ rC = [c \in {} |-> NewComponent("")]
    /\ rLookup = {}
    /\ rTree = NoTree
    /\ rMode \in Modes
    /\ rObs = NoObservation

\* the variables after a pass that ended in S
AfterPass(S, tree, mounted) ==
    \E observed \in BOOLEAN :
        IF observed \/ S.err
            THEN /\ rN' = S.N /\ rC' = S.C /\ rLookup' = S.lookup
                 /\ rObs' = Observation(S, rTree, mounted)
            ELSE LET Keep(next) == /\ rN' = next.N /\ rC' = next.C /\ rLookup' = S.lookup
                                   /\ rObs' = NoObservation
                 IN Keep(Renumbered(S.N, S.C, S.lookup))

\* template.renderSync(input).appendTo(document.body)
Mount ==
    /\ ~Mounted /\ ~rObs.on
    /\ \E tree \in TreesOf(rMode) :
          /\ AfterPass(initialRender(PassState(rN, rC, rLookup), tree), tree, FALSE)
          /\ rTree' = tree
    /\ UNCHANGED <<rMode, keyVars, attrVars, vnodeVars, queueVars, formVars, fragVars, stateVars, eventVars, loaderVars, dirtyVars, subsVars, asyncVars>>

\* component.update() of the dirty top-level component: Component.L_
Rerender ==
    /\ Mounted /\ ~rObs.on
    /\ \E tree \in TreesOf(rMode) :
          /\ AfterPass(Component_L_(PassState(rN, rC, rLookup), tree), tree, TRUE)
          /\ rTree' = tree
    /\ UNCHANGED <<rMode, keyVars, attrVars, vnodeVars, queueVars, formVars, fragVars, stateVars, eventVars, loaderVars, dirtyVars, subsVars, asyncVars>>

Next == Mount \/ Rerender

Spec == Init /\ [][Next]_vars

(***************************************************************************)
(* What the properties below read of an observed pass: rObs holds the      *)
(* state before the pass, the tree of the pass before it and what the pass *)
(* did; rN, rC, rLookup and rTree hold the state after it.  Node           *)
(* identities are kept over an observed pass: a node above Len(rObs.N)     *)
(* was created by the pass.                                                *)
(***************************************************************************)
\* the real siblings between the markers of the top-level component
ContentOf(N) ==
    LET kids == N[MountPoint].kids
    IN IF Len(kids) < 2 THEN <<>> ELSE SubSeq(kids, 2, Len(kids) - 1)

\* a node is in the document: its parent chain ends at the mount point
RECURSIVE Attached(_, _)
Attached(N, node) ==
    IF node = MountPoint THEN TRUE
    ELSE IF node = NoNode \/ N[node].parent = NoNode THEN FALSE
    ELSE Attached(N, N[node].parent)

\* the real tree without the fragment markers: type, name, value,
\* attributes and children of each node
RECURSIVE RealShape(_, _)
RealShape(N, nodes) ==
    IF nodes = <<>> THEN <<>>
    ELSE LET n == Head(nodes)
             me == IF N[n].fragment # NoNode THEN <<>>
                   ELSE <<[nodeType |-> N[n].nodeType, nodeName |-> N[n].nodeName,
                           nodeValue |-> N[n].nodeValue, attrs |-> N[n].attrs,
                           kids |-> RealShape(N, N[n].kids)]>>
         IN me \o RealShape(N, Tail(nodes))

\* the same of what a template renders: a component tag stands for the
\* nodes of its template, a fragment for its children, and an element has
\* the attributes a newly created element gets
RECURSIVE ExpectedShape(_)
ExpectedShape(vNodes) ==
    IF vNodes = <<>> THEN <<>>
    ELSE LET v == Head(vNodes)
             me == IF v.nodeType = COMPONENT_NODE
                       THEN ExpectedShape(TemplateOf(v.nodeName, v.value))
                   ELSE IF v.nodeType = FRAGMENT_NODE THEN ExpectedShape(v.kids)
                   ELSE <<[nodeType |-> v.nodeType, nodeName |-> v.nodeName,
                           nodeValue |-> v.value,
                           attrs |-> aC_([el |-> NewEl, ops |-> <<>>], v).el.attrs,
                           kids |-> ExpectedShape(v.kids)]>>
         IN me \o ExpectedShape(Tail(vNodes))

\* an observed pass that returned
Returned == rObs.on /\ ~rObs.err

\* an observed update of the mounted component that returned
Updated == Returned /\ rObs.mounted

\* how often the pass emitted "destroy" for a component
DestroyCount(component) ==
    Cardinality({i \in 1..Len(rObs.ev) :
                    rObs.ev[i].c = component /\ rObs.ev[i].e = "destroy"})

\* the real nodes of a component's root fragment before the pass
RootNodesBefore(component) ==
    IF rObs.C[component].h_ = NoNode THEN {}
    ELSE Range(fragment_walk(rObs.N, rObs.N[rObs.C[component].h_].startNode,
                             rObs.N[rObs.C[component].h_].endNode, <<>>))

\* C1: after a pass returns, the real tree under the mount point has the
\* node types, tag names, text values, attributes and child order of the
\* rendered tree.
C1_StructuralEquivalence ==
    Returned => RealShape(rN, rN[MountPoint].kids) = ExpectedShape(rTree)

\* C2: an update with the tree of the pass before it performs no real-tree
\* mutation.
C2_Idempotence ==
    (Updated /\ rObs.tree = rTree) => rObs.log = <<>>

\* the keys of the real siblings of the top-level component before the pass
KeysBefore == [i \in 1..Len(ContentOf(rObs.N)) |-> rObs.N[ContentOf(rObs.N)[i]].key]

TreeKeys == [i \in 1..Len(rTree) |-> rTree[i].key]

Distinct(seq) == \A i, j \in 1..Len(seq) : i # j => seq[i] # seq[j]

\* the siblings before the pass are keyed elements with distinct keys and
\* the tree holds the same keys in some order, each with the tag it had
KeyedPermutation ==
    /\ Updated
    /\ \A i \in 1..Len(rTree) : rTree[i].nodeType = ELEMENT_NODE /\ IsKey(rTree[i].key)
    /\ \A i \in 1..Len(KeysBefore) :
          /\ rObs.N[ContentOf(rObs.N)[i]].nodeType = ELEMENT_NODE
          /\ IsKey(KeysBefore[i])
    /\ Distinct(KeysBefore) /\ Distinct(TreeKeys)
    /\ Range(KeysBefore) = Range(TreeKeys)
    /\ \A i \in 1..Len(rTree) :
          \A j \in 1..Len(KeysBefore) :
              KeysBefore[j] = rTree[i].key
                  => rObs.N[ContentOf(rObs.N)[j]].nodeName = rTree[i].nodeName

\* C3: when the keyed siblings of one parent are permuted, each key keeps
\* its real node, the real nodes end in the order of the tree, and no node
\* of them is created, removed or destroyed.
C3_KeyedStability ==
    KeyedPermutation =>
        /\ Len(ContentOf(rN)) = Len(rTree)
        /\ \A i \in 1..Len(ContentOf(rN)) :
              \E j \in 1..Len(KeysBefore) :
                  /\ ContentOf(rN)[i] = ContentOf(rObs.N)[j]
                  /\ KeysBefore[j] = rTree[i].key
        /\ \A i \in 1..Len(rObs.log) :
              rObs.log[i].op = "removeChild" => rObs.log[i].node \notin Range(ContentOf(rObs.N))
        /\ \A i \in 1..Len(rObs.ev) : rObs.ev[i].e # "destroy"

C3_Witness ==
    /\ KeyedPermutation
    /\ Len(rTree) = 3
    /\ \A i \in 1..3 : KeysBefore[i] # rTree[i].key
    /\ Len(ContentOf(rN)) = 3

\* C4: a component that is registered when an update starts and is not
\* rendered by it gets its destroy event exactly once during the update,
\* and none of its root nodes stays in the document.
C4_DestroyOnRemoval ==
    Updated =>
        \A component \in rObs.lookup \ rObs.z :
            /\ DestroyCount(component) = 1
            /\ \A node \in RootNodesBefore(component) : ~Attached(rN, node)

\* C5: a component rendered by a pass is not destroyed while the pass
\* reconciles, and after the pass it has a root that is in the document.
C5_NoDestroyOfLive ==
    Returned =>
        \A component \in rObs.z :
            /\ \A i \in 1..Len(rObs.ev) :
                  (rObs.ev[i].c = component /\ rObs.ev[i].e = "destroy")
                      => rObs.ev[i].phase = "render"
            /\ ~rC[component].q_
            /\ rC[component].h_ # NoNode
            /\ Attached(rN, rN[rC[component].h_].startNode)

\* node type and tag name of a real node equal those of a virtual node
Compatible(N, node, vNode) ==
    /\ N[node].nodeType = vNode.nodeType
    /\ N[node].nodeType = ELEMENT_NODE => N[node].nodeName = vNode.nodeName

\* the unkeyed siblings before the pass: no element key, no nested fragment
UnkeyedSiblings ==
    /\ Updated
    /\ \A i \in 1..Len(ContentOf(rObs.N)) :
          LET node == ContentOf(rObs.N)[i]
          IN rObs.N[node].fragment = NoNode /\ ~IsKey(rObs.N[node].key)
    /\ \A i \in 1..Len(rTree) :
          rTree[i].nodeType \in {ELEMENT_NODE, TEXT_NODE, COMMENT_NODE} /\ ~IsKey(rTree[i].key)

\* a position both lists have where type or tag name differ
Mismatch(i) ==
    /\ i <= Len(ContentOf(rObs.N)) /\ i <= Len(rTree)
    /\ ~Compatible(rObs.N, ContentOf(rObs.N)[i], rTree[i])

\* at position i the pass put a node it created and took the old one out
Replaced(i) ==
    /\ i <= Len(ContentOf(rN))
    /\ ContentOf(rN)[i] > Len(rObs.N)
    /\ ~Attached(rN, ContentOf(rObs.N)[i])

\* C6 as stated: at every unkeyed position where old and new node differ
\* in type or tag name, a new real node is created for the target and the
\* old real node is removed.
C6_UnkeyedReplacement ==
    UnkeyedSiblings => \A i \in 1..Len(rTree) : Mismatch(i) => Replaced(i)

\* the first mismatch, with no old sibling from there on that has the
\* type and tag name of the target
FirstMismatchWithoutLaterMatch(i) ==
    /\ Mismatch(i)
    /\ \A j \in 1..(i - 1) : ~Mismatch(j)
    /\ \A j \in i..Len(ContentOf(rObs.N)) : ~Compatible(rObs.N, ContentOf(rObs.N)[j], rTree[i])

\* C6 amended: at the first unkeyed position where old and new node differ
\* in type or tag name, if no old sibling at or after it has the type and
\* tag name of the target, a new real node is created for the target and
\* the old real node is removed.
C6_UnkeyedReplacementAtExhaustion ==
    UnkeyedSiblings =>
        \A i \in 1..Len(rTree) : FirstMismatchWithoutLaterMatch(i) => Replaced(i)

C6_Witness ==
    /\ UnkeyedSiblings
    /\ \E i \in 1..Len(rTree) :
          /\ i > 1
          /\ FirstMismatchWithoutLaterMatch(i)
          /\ Replaced(i)
          /\ rTree[i].nodeType = ELEMENT_NODE
          /\ rObs.N[ContentOf(rObs.N)[i]].nodeType = ELEMENT_NODE

\* the real node and everything below it is after the pass as before it
RECURSIVE SameSubtree(_)
SameSubtree(node) ==
    /\ rN[node].attrs = rObs.N[node].attrs
    /\ rN[node].props = rObs.N[node].props
    /\ rN[node].nodeValue = rObs.N[node].nodeValue
    /\ rN[node].kids = rObs.N[node].kids
    /\ \A i \in 1..Len(rObs.N[node].kids) : SameSubtree(rObs.N[node].kids[i])

RECURSIVE Below(_, _)
Below(N, node) == {node} \cup UNION {Below(N, N[node].kids[i]) : i \in 1..Len(N[node].kids)}

\* the keys one KeySequence resolves a list of literal keys to
RECURSIVE ResolvedKeys(_, _)
ResolvedKeys(lookup, keys) ==
    IF keys = <<>> THEN <<>>
    ELSE <<KeySequence_nextKey(lookup, Head(keys))>>
            \o ResolvedKeys(KeySequence_nextLookup(lookup, Head(keys)), Tail(keys))

\* position i holds, before the pass, a real element made from a constant
\* virtual element, the tree has the same constant at i, and the siblings
\* up to i are paired by position
ConstPair(i) ==
    /\ Updated
    /\ i <= Len(ContentOf(rObs.N)) /\ i <= Len(rTree)
    /\ \A j \in 1..i :
          /\ rTree[j].nodeType = ELEMENT_NODE
          /\ rObs.N[ContentOf(rObs.N)[j]].nodeType = ELEMENT_NODE
          /\ rObs.N[ContentOf(rObs.N)[j]].key = ResolvedKeys(KeySequence, TreeKeys)[j]
    /\ rTree[i].constId # 0
    /\ rObs.N[ContentOf(rObs.N)[i]].vEl.constId = rTree[i].constId

\* C8: patching a real element whose source virtual element carries the
\* constant id of the target leaves its attributes and its subtree alone.
C8_ConstShortCircuit ==
    \A i \in 1..Len(rTree) :
        ConstPair(i) =>
            LET node == ContentOf(rObs.N)[i]
            IN /\ i <= Len(ContentOf(rN)) /\ ContentOf(rN)[i] = node
               /\ SameSubtree(node)
               /\ \A k \in 1..Len(rObs.log) :
                     rObs.log[k].node \notin Below(rObs.N, node)

C8_Witness ==
    \E i \in 1..Len(rTree) :
        /\ ConstPair(i)
        /\ ContentOf(rN)[i] = ContentOf(rObs.N)[i]
        /\ rTree[i].attrs # rObs.N[ContentOf(rObs.N)[i]].vEl.attrs
        /\ ExpectedShape(<<rTree[i]>>) # RealShape(rN, <<ContentOf(rN)[i]>>)

\* C10: within one keying scope and one render pass the resolved keys are
\* pairwise distinct, whatever literal keys are requested.
KeyUniqueness ==
    \A i, j \in 1..Len(ksResolved) : i # j => ksResolved[i] # ksResolved[j]

\* the attribute of the real element that a name of an attribute map stands for
DomAttrOf(name) == IF name = ATTR_XLINK_HREF THEN AttrKey(NS_XLINK, ATTR_HREF) ELSE name

\* the operations of a log that touch the attribute or property a name stands for
OpsOn(log, name) ==
    {i \in 1..Len(log) :
        \/ log[i].name = name
        \/ log[i].name = DomAttrOf(name)
        \/ name = ATTR_XLINK_HREF /\ log[i].name = AttrKey(ATTR_XLINK_HREF, ATTR_HREF)}

AttrNamesOfPatch == DOMAIN aPrev.attrs \cup DOMAIN aEl.vEl.attrs

\* C7: patching an element from attribute map O to attribute map N issues
\* exactly one attribute mutation for each name whose value differs between
\* O and N and none for a name whose value is the same in both.
C7_AttrDiffMinimality ==
    aPrev # NoVNode =>
        \A name \in AttrNamesOfPatch :
            Cardinality(OpsOn(aLog, name)) =
                IF Get(aPrev.attrs, name) # Get(aEl.vEl.attrs, name) THEN 1 ELSE 0

\* C9: each attribute present in the old map and absent, false or null in
\* the new map is removed from the real element by the patch.
C9_AttrRemoval ==
    aPrev # NoVNode =>
        \A name \in DOMAIN aPrev.attrs :
            (IsNullish(Get(aEl.vEl.attrs, name)) \/ Get(aEl.vEl.attrs, name) = FalseV)
                => DomAttrOf(name) \notin DOMAIN aEl.attrs

\* the top-level targets that are keyed elements
KeyedElementTargets ==
    {i \in 1..Len(rTree) : rTree[i].nodeType = ELEMENT_NODE /\ IsKey(rTree[i].key)}

\* target i is the first of its scope with its key, and before the pass the
\* scope's table has no real node for the key or a real node that has no
\* recorded virtual node
NoUsableMatch(i) ==
    /\ \A j \in 1..(i - 1) : rTree[j].nodeType = COMPONENT_NODE \/ rTree[j].key # rTree[i].key
    /\ LET keyed == rObs.C[RootId].v_
       IN \/ rTree[i].key \notin DOMAIN keyed
          \/ rObs.N[keyed[rTree[i].key]].vEl = NoVNode

\* C12: a pass in which the key of a keyed target names no real node, or a
\* real node without a recorded virtual node, raises no error: the target
\* is handled as not found.
C12_NoErrorOnMissingMatch ==
    (rObs.on /\ rObs.mounted /\ \E i \in KeyedElementTargets : NoUsableMatch(i)) => ~rObs.err

\* the records of rObs.consumed for target i of the children of fromNode
ConsumedAt(fromNode, i) ==
    {k \in 1..Len(rObs.consumed) : rObs.consumed[k].from = fromNode /\ rObs.consumed[k].i = i}

\* every child list the pass walked has each of its targets consumed exactly
\* once, the children of the rendered tree among them, and no real node was
\* met twice by a loop over left-over children
LoopsComplete ==
    /\ \A k \in 1..Len(rObs.consumed) :
          \A i \in 1..rObs.consumed[k].n :
              Cardinality(ConsumedAt(rObs.consumed[k].from, i)) = 1
    /\ \A i \in 1..Len(rTree) : Cardinality(ConsumedAt(rC[RootId].h_, i)) = 1
    /\ \A k, l \in 1..Len(rObs.tail) : k # l => rObs.tail[k] # rObs.tail[l]

\* C13: a pass over finite trees terminates by returning: it raises no
\* error, every target child is consumed exactly once and every left-over
\* real child is visited once by the cleanup loop.
C13_PassCompletes == rObs.on => (~rObs.err /\ LoopsComplete)

\* the components the top-level tags of a tree resolve to: id and type
ComponentsOf(tree) ==
    LET tags == SelectSeq(tree, LAMBDA v : v.nodeType = COMPONENT_NODE)
        keys == ResolvedKeys(KeySequence, [j \in 1..Len(tags) |-> tags[j].key])
    IN {[id |-> resolveComponentKey(keys[j], RootId), type |-> tags[j].nodeName] :
           j \in 1..Len(tags)}

CreateCount(component) ==
    Cardinality({i \in 1..Len(rObs.ev) : rObs.ev[i].c = component /\ rObs.ev[i].e = "create"})

\* C15: a component of the new tree whose id is that of a live registered
\* instance of the same type is reused: the pass emits no create event for
\* it.
C15_ReuseOfRegistered ==
    Updated =>
        \A p \in ComponentsOf(rTree) :
            (p.id \in rObs.lookup /\ ~rObs.C[p.id].q_ /\ rObs.C[p.id].l_ = p.type)
                => CreateCount(p.id) = 0

\* C15: a component whose id and type are in the tree of the pass before
\* and in the tree of this pass is not created again: over re-renders that
\* keep its id the create event fires once.
C15_CreateOnceWhileIdPersists ==
    Updated =>
        \A p \in ComponentsOf(rTree) \cap ComponentsOf(rObs.tree) : CreateCount(p.id) = 0

\* the real nodes of the document in document order, fragment markers left
\* out
RECURSIVE RealNodes(_, _)
RealNodes(N, nodes) ==
    IF nodes = <<>> THEN <<>>
    ELSE (IF N[Head(nodes)].fragment # NoNode THEN <<>>
          ELSE <<Head(nodes)>> \o RealNodes(N, N[Head(nodes)].kids))
         \o RealNodes(N, Tail(nodes))

\* the Element, Text and Comment virtual nodes a tree renders, in document
\* order
RECURSIVE VirtualNodes(_)
VirtualNodes(vNodes) ==
    IF vNodes = <<>> THEN <<>>
    ELSE (IF Head(vNodes).nodeType = COMPONENT_NODE
             THEN VirtualNodes(TemplateOf(Head(vNodes).nodeName, Head(vNodes).value))
          ELSE IF Head(vNodes).nodeType = FRAGMENT_NODE THEN VirtualNodes(Head(vNodes).kids)
          ELSE <<Head(vNodes)>> \o VirtualNodes(Head(vNodes).kids))
         \o VirtualNodes(Tail(vNodes))

\* C16: after a pass returns, the Element, Text and Comment virtual nodes
\* of the new tree and the real nodes of the document are paired one to
\* one in document order: none is without a partner, partners have the
\* same kind, and a real element has its partner's tag and key recorded.
C16_OneRealNodePerVirtualNode ==
    Returned =>
        LET real == RealNodes(rN, rN[MountPoint].kids)
            virtual == VirtualNodes(rTree)
        IN /\ Len(real) = Len(virtual)
           /\ \A p \in 1..Len(real) :
                 /\ p <= Len(virtual)
                 /\ rN[real[p]].nodeType = virtual[p].nodeType
                 /\ virtual[p].nodeType = ELEMENT_NODE =>
                        /\ rN[real[p]].vEl # NoVNode
                        /\ rN[real[p]].vEl.nodeName = virtual[p].nodeName
                        /\ rN[real[p]].vEl.key = virtual[p].key

\* how often the literal key of request i was requested before it
RequestedBefore(i) == Cardinality({j \in 1..(i - 1) : ksRequested[j] = ksRequested[i]})

\* C17: in one keying scope the first request of a literal key resolves to
\* the bare key and the n-th request (n >= 2) to the key suffixed with _
\* and n-1: the result is a function of the requests made before it in the
\* scope.
C17_KeyDisambiguation ==
    \A i \in 1..Len(ksResolved) :
        ksResolved[i] = IF RequestedBefore(i) = 0 THEN ksRequested[i]
                        ELSE ksRequested[i] \o "_" \o ToString(RequestedBefore(i))

\* a literal key was requested a third time
C17_Witness ==
    \E i \in 1..Len(ksResolved) :
        RequestedBefore(i) = 2 /\ ksResolved[i] = ksRequested[i] \o "_2"

\* the real siblings before the pass and the targets are keyed elements
\* with distinct keys
KeyedSiblings ==
    /\ Updated
    /\ \A i \in 1..Len(rTree) : rTree[i].nodeType = ELEMENT_NODE /\ IsKey(rTree[i].key)
    /\ \A i \in 1..Len(KeysBefore) :
          /\ rObs.N[ContentOf(rObs.N)[i]].nodeType = ELEMENT_NODE
          /\ IsKey(KeysBefore[i])
    /\ Distinct(KeysBefore) /\ Distinct(TreeKeys)

\* before the pass the key of target i names a real element of another tag
TagMismatch(i) ==
    /\ rTree[i].key \in DOMAIN rObs.C[RootId].v_
    /\ rObs.N[rObs.C[RootId].v_[rTree[i].key]].nodeType = ELEMENT_NODE
    /\ rObs.N[rObs.C[RootId].v_[rTree[i].key]].vEl.nodeName # rTree[i].nodeName

C18_WitnessAtCursor ==
    /\ KeyedSiblings
    /\ \E i \in 1..Len(rTree) :
          /\ TagMismatch(i)
          /\ i <= Len(KeysBefore) /\ KeysBefore[i] = rTree[i].key

\* the marks of the pass in which a detached node is found by a later keyed
\* target of its own tag name
Rematches ==
    {m \in (1..Len(rObs.marks)) \X (1..Len(rObs.marks)) :
        /\ m[1] < m[2]
        /\ rObs.marks[m[1]].op = "detach" /\ rObs.marks[m[2]].op = "match"
        /\ rObs.marks[m[1]].node = rObs.marks[m[2]].node
        /\ rN[rObs.marks[m[2]].node].nodeName = rObs.marks[m[2]].tag}

\* the log of the pass has no removeChild of the node
NeverRemoved(node) ==
    \A k \in 1..Len(rObs.log) : ~(rObs.log[k].op = "removeChild" /\ rObs.log[k].node = node)

\* the real node that stands for the node in the document: the start
\* marker of a fragment, the node itself otherwise
Anchor(N, node) == IF N[node].nodeType = FRAGMENT_NODE THEN N[node].startNode ELSE node

\* targets 1..i of the rendered tree take one real node each
SingleUpTo(i) ==
    \A j \in 1..i : rTree[j].nodeType \in {ELEMENT_NODE, TEXT_NODE, COMMENT_NODE}

\* the part of C19 about the bookkeeping alone: the node found again is in
\* the document, not marked as detached and not removed by the flush
C19_RematchedNodeStays ==
    Returned =>
        \A m \in Rematches :
            LET mark == rObs.marks[m[2]]
            IN /\ rN[mark.node].detached = ""
               /\ Attached(rN, Anchor(rN, mark.node))
               /\ NeverRemoved(Anchor(rN, mark.node))

\* C19: a keyed real node that was detached earlier in a pass and is found
\* by a later keyed target of the same pass is cleared from the detached
\* bookkeeping: after the pass it is in the document and not marked as
\* detached, the flush did not remove it, and when the target is a
\* top-level one it stands at the target's position.
C19_RematchedNodeKept ==
    /\ C19_RematchedNodeStays
    /\ Returned =>
          \A m \in Rematches :
              LET mark == rObs.marks[m[2]]
              IN (mark.from = rC[RootId].h_ /\ SingleUpTo(mark.i)) =>
                    /\ mark.i <= Len(ContentOf(rN))
                    /\ ContentOf(rN)[mark.i] = mark.node

C19_Witness == Returned /\ Rematches # {}

\* the components the pass rendered as a preserved placeholder: begun by
\* the renderer (in _z_) without a render event, and registered before
PreservedPlaceholders ==
    {component \in rObs.z \cap rObs.lookup :
        \A k \in 1..Len(rObs.ev) :
            ~(rObs.ev[k].c = component /\ rObs.ev[k].e = "render")}

\* the real nodes from the start marker to the end marker of a component's
\* root fragment
HostNodes(N, C, component) ==
    IF C[component].h_ = NoNode THEN <<>>
    ELSE fragment_walk(N, N[C[component].h_].startNode, N[C[component].h_].endNode, <<>>)

\* C20: when a component placeholder that carries the preserve flag matches
\* an existing component instance, the pass leaves the real nodes between
\* the markers of the component's root fragment as they were: the same
\* nodes in the same order, in the document, with the same subtrees.
C20_PreservedHostUnchanged ==
    Updated =>
        \A component \in PreservedPlaceholders :
            LET before == HostNodes(rObs.N, rObs.C, component)
            IN /\ HostNodes(rN, rC, component) = before
               /\ \A k \in 1..Len(before) : Attached(rN, before[k])
               /\ RealNodes(rN, before) = RealNodes(rObs.N, before)
               /\ RealShape(rN, before) = RealShape(rObs.N, before)

\* the part of C20 about the component branch alone: no patch of the pass
\* touches a node of a preserved host
C20_NoPatchOfPreserved ==
    Updated =>
        \A component \in PreservedPlaceholders :
            \A k \in 1..Len(rObs.log) :
                rObs.log[k].op \in {"setAttribute", "removeAttribute", "nodeValue"}
                    => rObs.log[k].node \notin Range(RealNodes(rObs.N, HostNodes(rObs.N, rObs.C, component)))

C20_Witness ==
    /\ Updated
    /\ \E component \in PreservedPlaceholders :
          /\ HostNodes(rObs.N, rObs.C, component) # <<>>
          /\ HostNodes(rN, rC, component) = HostNodes(rObs.N, rObs.C, component)
          /\ rObs.log # <<>>

\* the real elements whose virtual node had a key when the pass started
KeyedBefore ==
    {node \in 1..Len(rObs.N) :
        rObs.N[node].nodeType = ELEMENT_NODE /\ IsKey(rObs.N[node].vEl.key)}

\* C21: an unkeyed target element is never patched onto a real element
\* whose last-rendered virtual node carries a key: after a pass the virtual
\* node recorded for such an element still has a key.
C21_UnkeyedNeverPatchesKeyed ==
    Returned => \A node \in KeyedBefore : IsKey(rN[node].vEl.key)

\* the unkeyed scan met a keyed real element of the target's tag name and
\* detached it; a new element stands for the target
C21_Witness ==
    /\ Updated
    /\ \E i \in 1..Len(rTree) :
          /\ rTree[i].nodeType = ELEMENT_NODE /\ ~IsKey(rTree[i].key)
          /\ \E k \in 1..Len(rObs.marks) :
                /\ rObs.marks[k].op = "detach"
                /\ rObs.marks[k].node \in KeyedBefore
                /\ rObs.marks[k].node \in Range(ContentOf(rObs.N))
                /\ rObs.N[rObs.marks[k].node].nodeName = rTree[i].nodeName
                /\ ~Attached(rN, rObs.marks[k].node)
          /\ i <= Len(ContentOf(rN))
          /\ ContentOf(rN)[i] > Len(rObs.N)
          /\ rN[ContentOf(rN)[i]].nodeName = rTree[i].nodeName

\* the places in the events of the observed pass where initComponent
\* emitted mount or update for the component
InitEventsOf(component) ==
    {i \in 1..Len(rObs.ev) : /\ rObs.ev[i].c = component
                              /\ rObs.ev[i].phase = "init"
                              /\ rObs.ev[i].e \in {"mount", "update"}}

\* the components of the pass that were rendered inside the component
Descendants(component) ==
    {rObs.ev[i].c : i \in {j \in 1..Len(rObs.ev) :
                              /\ Len(rObs.ev[j].c) > Len(component)
                              /\ SubSeq(rObs.ev[j].c, 1, Len(component)) = component}}

\* C27: initClientRendered initializes nested components before their
\* ancestors: among the component definitions of one render, the mount or
\* update event of every descendant is emitted before the mount or update
\* event of its ancestor.
C27_NestedBeforeAncestors ==
    Returned =>
        \A ancestor \in DOMAIN rC : \A descendant \in Descendants(ancestor) :
            \A i \in InitEventsOf(ancestor), j \in InitEventsOf(descendant) : j < i

\* an update in which one nested component was mounted, another updated,
\* and the top-level component updated
C27_Witness ==
    /\ Updated
    /\ InitEventsOf(RootId) # {}
    /\ \E d1, d2 \in Descendants(RootId) :
          /\ \E j \in InitEventsOf(d1) : rObs.ev[j].e = "mount"
          /\ \E j \in InitEventsOf(d2) : rObs.ev[j].e = "update"

\* the real nodes the key tables of a component hold: v_, and every slot
\* of the tables of repeated keys
TableNodes(C, component) ==
    {C[component].v_[key] : key \in DOMAIN C[component].v_}
        \cup UNION {{C[component].vr_[key][id] : id \in DOMAIN C[component].vr_[key]} :
                       key \in DOMAIN C[component].vr_}

\* C31: after a pass the key tables of a component hold no stale entry:
\* every entry, under a single key or in a slot of a repeated key, is a real
\* node that is in the document.
C31_NoStaleEntry ==
    Returned =>
        \A component \in DOMAIN rC :
            ~rC[component].q_ =>
                \A node \in TableNodes(rC, component) :
                    node # NoNode /\ Attached(rN, Anchor(rN, node))


\* the key the pass resolves the literal key of the keyed element at
\* top-level position i to: the keyed elements of one scope draw from one
\* KeySequence in document order
ResolvedKeyAt(i) ==
    LET before == SelectSeq([j \in 1..i |-> rTree[j]],
                            LAMBDA v : v.nodeType = ELEMENT_NODE /\ IsKey(v.key))
        keys == ResolvedKeys(KeySequence, [j \in 1..Len(before) |-> before[j].key])
    IN keys[Len(keys)]

\* the real node the scope's table gives for the key of top-level target i,
\* NoNode when the table has no entry
KeyedLookup(i) ==
    IF ResolvedKeyAt(i) \in DOMAIN rC[RootId].v_ THEN rC[RootId].v_[ResolvedKeyAt(i)] ELSE NoNode

\* the real node realizes target i: it is in the document under the mount
\* point and is an element with the target's tag and resolved key
Realizes(node, i) ==
    /\ node # NoNode
    /\ Attached(rN, node)
    /\ rN[node].nodeType = ELEMENT_NODE
    /\ rN[node].nodeName = rTree[i].nodeName
    /\ rN[node].key = ResolvedKeyAt(i)

\* C32: after a pass returns, for every keyed element of the new tree the
\* table of the keying scope's component maps the key to the real node that
\* realizes the element, a node that is in the document.
C32_KeyMapsToRealizingNode ==
    Returned => \A i \in KeyedElementTargets : Realizes(KeyedLookup(i), i)


\* no component tag of the template family has the literal key of a keyed
\* element of the family
KeysNotShared ==
    \A v, w \in Families[rMode] :
        (v.nodeType = COMPONENT_NODE /\ w.nodeType = ELEMENT_NODE /\ IsKey(w.key)) => v.key # w.key

\* the pairing of C32 for templates in which no component shares a key with
\* an element
C32_KeyMapsWhenNotShared ==
    (Returned /\ KeysNotShared) => \A i \in KeyedElementTargets : Realizes(KeyedLookup(i), i)


\* event k of the pass is the destroy event of an instance, and event j is
\* a later event of the same instance: the id is not given to a new
\* instance (a create event) in between
LaterOfDestroyed(k, j) ==
    /\ k < j
    /\ rObs.ev[k].e = "destroy"
    /\ rObs.ev[j].c = rObs.ev[k].c
    /\ \A m \in (k + 1)..j : ~(rObs.ev[m].c = rObs.ev[k].c /\ rObs.ev[m].e = "create")

\* C34: once the destroy event of a component instance has been emitted the
\* pass emits no render, mount, update or destroy event for that instance,
\* and after the pass the id of a destroyed instance is not in the global
\* component lookup.
C34_DestroyIsFinal ==
    Returned =>
        /\ \A k, j \in 1..Len(rObs.ev) :
              LaterOfDestroyed(k, j) => rObs.ev[j].e \notin {"render", "mount", "update", "destroy"}
        /\ \A component \in rLookup : ~rC[component].q_


\* event k of the pass is the create event of an instance and event j is a
\* later event of that instance
OfCreated(k, j) ==
    /\ k < j
    /\ rObs.ev[k].e = "create"
    /\ rObs.ev[j].c = rObs.ev[k].c
    /\ \A m \in (k + 1)..j : ~(rObs.ev[m].c = rObs.ev[k].c /\ rObs.ev[m].e = "create")

MountsOf(k) == {j \in 1..Len(rObs.ev) : OfCreated(k, j) /\ rObs.ev[j].e = "mount"}

\* C35: an instance created in a pass gets exactly one mount event, before
\* every update event of the instance, and an instance that was initialized
\* in an earlier pass gets no mount event: its initializations emit update.
C35_MountOnceBeforeUpdates ==
    Returned =>
        /\ \A k \in 1..Len(rObs.ev) : rObs.ev[k].e = "create" => Cardinality(MountsOf(k)) = 1
        /\ \A k, j \in 1..Len(rObs.ev) :
              (OfCreated(k, j) /\ rObs.ev[j].e = "update") => \E m \in MountsOf(k) : m < j
        /\ \A j \in 1..Len(rObs.ev) :
              rObs.ev[j].e = "mount" => \E k \in 1..Len(rObs.ev) : OfCreated(k, j)
        /\ \A component \in DOMAIN rObs.C :
              (component \in rObs.lookup /\ ~rObs.C[component].q_) => rObs.C[component].o_

\* a pass on a mounted tree creates an instance and initializes an instance
\* of an earlier pass
C35_Witness ==
    /\ Updated
    /\ \E k \in 1..Len(rObs.ev) : rObs.ev[k].e = "create" /\ MountsOf(k) # {}
    /\ \E j \in 1..Len(rObs.ev) :
          /\ rObs.ev[j].e = "update" /\ rObs.ev[j].c # RootId
          /\ \A k \in 1..Len(rObs.ev) : ~OfCreated(k, j)

====
